---------------------------- MODULE Spec2Model ----------------------------
(***************************************************************************)
(* PicoCode: a model of the concurrent core of the indexing service.       *)
(*                                                                         *)
(*   SpecAgent   the IndexSyncAgent reconciliation pass                    *)
(*               (src/ai/agents/index_sync_agent.py)                       *)
(*   SpecWriter  the DBWriter queue, its workers, its callers and stop()   *)
(*               (src/db/db_writer.py)                                     *)
(*   SpecStore   the per-project database (chunks, vector_meta) under      *)
(*               concurrent calls of insert_chunk_vector_with_retry,       *)
(*               search_vectors and clear_project_data                     *)
(*               (src/db/vector_operations.py, src/db/operations.py)       *)
(*   SpecIndex   the per-project database (files, chunks, vector_meta)     *)
(*               under the file tasks of indexing runs                     *)
(*               (src/ai/analyzer.py, src/db/operations.py)                *)
(*   SpecLife    start(), stop() and the loop threads of IndexSyncAgent    *)
(*               (src/ai/agents/index_sync_agent.py)                       *)
(*   SpecRun     analyze_local_path_sync: the run that submits the file    *)
(*               tasks and collects them (src/ai/analyzer.py)              *)
(*   SpecChunk   get_chunk_text reading a chunk back from the file         *)
(*               (src/db/vector_operations.py, src/utils/utils.py)         *)
(*   SpecWatch   the FileWatcher check of a watched project                *)
(*               (src/utils/file_watcher.py)                               *)
(*   SpecCancel  index and delete requests on one project and the flag     *)
(*               indexing_active (src/endpoints/project_endpoints.py)      *)
(*   SpecSmart   the chunks of a file as the pipeline embeds them and as   *)
(*               get_chunk_text reads them back (src/ai/smart_chunker.py)  *)
(*   SpecPool    the shared executor of file tasks and embedding tasks     *)
(*               and the semaphore of a run (src/ai/analyzer.py)           *)
(*   SpecRetry   the chunk-vector insert and its retries on a locked       *)
(*               database (src/db/vector_operations.py)                    *)
(*   SpecLock    the FileWatcher lock, add_project, remove_project and     *)
(*               the check of the watcher thread                           *)
(*   SpecRegistry  the project registry and its cache                      *)
(*               (src/db/operations.py, src/utils/cache.py)                *)
(*   SpecBreaker the circuit breaker and retry loop of src/ai/openai.py    *)
(*   SpecRate    the rate limiter of src/ai/openai.py                      *)
(*                                                                         *)
(* Each specification moves only the variables of its own component and    *)
(* leaves the others at their initial value.                               *)
(***************************************************************************)
EXTENDS Integers, Sequences, FiniteSets, TLC

(***************************************************************************)
(* Absent values (Python's None, an empty fetchone()).                     *)
(***************************************************************************)
None == "None"

VARIABLES
    \* ---- IndexSyncAgent and the project registry it reconciles
    projStatus,     \* registry: projects.status per project id
    pathExists,     \* filesystem: os.path.exists(project["path"])
    storage,        \* project database: "nodb", "unreadable" or its stats
    inPass,         \* the agent is inside _reconcile_once
    pending,        \* the projects of the listing not reconciled yet
    updates,        \* update_project_status calls of the current pass
    statsCalls,     \* get_project_stats calls of the current pass
    \* ---- DBWriter
    wq,             \* DBWriter._q: task ids and stop sentinels, in FIFO order
    stopFlag,       \* DBWriter._stop (threading.Event)
    wpc,            \* where each worker thread is in _worker
    wtask,          \* the task a worker took from the queue
    tasks,          \* the _DBTask objects created so far
    caller,         \* what became of the caller of each task
    stopPc,         \* where the thread calling stop() is
    sentinelsLeft,  \* sentinels stop() has still to enqueue
    \* ---- the project database and the indexing pipeline
    disk,           \* the source tree: content and mtime of each file
    files,          \* table files: the row of each path (id 0: no row)
    nextFileId,     \* AUTOINCREMENT of files.id
    lastInsertId,   \* sqlite3_last_insert_rowid of each writer connection
    chunks,         \* table chunks: a bag of rows
    dimension,      \* vector_meta['dimension'] (NoDim: no row)
    tpc,            \* where each file task is in _process_file_sync
    tloc,           \* the locals of each file task
    \* ---- search_vectors and the history of the store
    cachedDim,      \* _CACHED_DIM of the process (NoDim: None)
    lastSearch,     \* how the last search_vectors call ended
    searches,       \* search_vectors calls so far
    clearedDim,     \* the dimension recorded when clear_project_data last ran
    \* ---- get_chunk_text
    fsContent,      \* filesystem: the content of the project's file a.py
    storedPath,     \* files.path of the row get_chunk_text looks up
    gctIndex,       \* the chunk_index of the last get_chunk_text call
    gctResult,      \* what that call returned
    gctRead,        \* the file that call read (NoRead: none)
    \* ---- FileWatcher (one watched project)
    fwDisk,         \* filesystem: the signature of each file of the project
    fwDirExists,    \* filesystem: os.path.exists(project_path)
    file_hashes,    \* _watched_projects[id]["file_hashes"]
    callbackSet,    \* _on_change_callback is not None
    ticks,          \* the _check_project calls made so far
    callbackCalls,  \* the calls of the callback made so far
    changed_files,  \* the argument of the last call of the callback
    \* ---- api_index_project, index_callback and api_delete_project (one project)
    indexing_active, \* indexing_active.get(project_id, False)
    projectRow,     \* the registry holds the row of the project
    stage,          \* where each index request and its index_callback is
    reqIncremental,    \* the incremental flag of each index request
    delPc,          \* where the delete request is
    deleteAt,       \* the stage each run was in when the delete request arrived
    \* ---- the chunks of a file as the pipeline embeds them
    scContent,      \* filesystem: the content of the file being indexed
    scLang,         \* detect_language(rel_path)
    scSmart,        \* cfg["smart_chunking"]
    scIdx,          \* the chunk index of the chunk embedded last
    scSent,         \* the text sent to the embedding provider for it
    scBack,         \* what get_chunk_text returned for it
    scPc,           \* "new", "written", "embedded" or "read"
    \* ---- the shared executor of analyzer.py and the run's semaphore
    executorQueue,  \* _EXECUTOR's work queue: tasks submitted and not taken
    executorThread, \* pool thread -> the task it runs, or IdleThread
    submitted,      \* how many file tasks analyze_local_path_sync has submitted
    filePc,         \* file -> "new", "queued", "submitting", "waiting", "done"
    fileIdx,        \* file -> the chunk it submits or waits for next
    embState,       \* <<file, chunk>> -> state of its embedding task
    embResult,      \* <<file, chunk>> -> what the file task got from the future
    semaphore,      \* free permits of the run's threading.Semaphore
    \* ---- insert_chunk_vector_with_retry: the retried INSERT
    riPc,           \* "idle", "try", "sleep", "returned" or "raised"
    riRetries,      \* retries made so far in the call
    riDelays,       \* the delays slept in the call, in hundredths of a second
    riLast,         \* what the last attempt of the call met
    riRows,         \* chunk rows in the table
    riCalls,        \* calls made so far
    \* ---- FileWatcher: the lock, the watch state and the threads using it
    wlLock,         \* the thread inside "with self._lock", or "none"
    wlWatched,      \* project_id in self._watched_projects
    wlHashes,       \* _watched_projects[project_id]["file_hashes"] (a signature)
    wlDisk,         \* the signature a scan of the directory gives now
    wlApiPc,        \* the thread calling add_project / remove_project
    wlLoopPc,       \* the watcher thread inside _check_all_projects
    wlCurrent,      \* current_hashes of the check in progress
    wlRemoved,      \* remove_project has returned and no add_project since
    \* ---- the project registry and project_cache, for one project
    rgStatus,       \* projects.status of the row in the registry database
    rgCacheId,      \* project_cache["project:id:<id>"]: the status cached, or NotCached
    rgCachePath,    \* project_cache["project:path:<path>"]: the same for the path key
    rgCall,         \* the last call made: "create", "update", "by_id" or "by_path"
    rgResult,       \* the status in the record the last lookup returned
    \* ---- the circuit breaker and retry loop of ai/openai.py, one caller
    cbNow,          \* time.time(), in seconds
    cbFailures,     \* _circuit_state["failures"]
    cbOpenUntil,    \* _circuit_state["open_until"]
    cbPc,           \* _retry_with_backoff: "idle", "attempt" or "sleep"
    cbAttempt,      \* the loop variable attempt
    cbInvocations,  \* invocations of the wrapped function in this call
    cbLastErr,      \* the last exception caught in this call, or "none"
    cbOutcome,      \* how the last call ended: "none", "returned", "raised"
    cbBeganOpen,    \* the circuit was open when this call began
    cbStreak,       \* failed invocations since the last successful one
    cbCalls,        \* calls of _retry_with_backoff begun
    \* ---- the rate limiter of ai/openai.py
    rlClock,        \* time.time()
    rlTimes,        \* _rate_limit_times
    rlLock,         \* the thread that holds _rate_limit_lock, or NoCaller
    rlPc,           \* per caller: "idle", "acquire", "locked", "sleep", "reacquire"
    rlCalls,        \* calls of _check_rate_limit begun
    \* ---- IndexSyncAgent lifecycle (start, stop, _run_loop)
    enabled,        \* IndexSyncAgent.enabled
    running,        \* IndexSyncAgent._running
    stop_event,     \* IndexSyncAgent._stop_event is set
    thread,         \* IndexSyncAgent._thread (NoThread: None)
    loopPc,         \* where each loop thread is in _run_loop
    passes,         \* the reconcile passes each loop thread has begun
    ctlPc,          \* where the thread calling start() and stop() is
    lastCall,       \* what the last start() or stop() call did
    signalled,      \* loop threads that were alive when stop() set the event
    \* ---- analyze_local_path_sync (one indexing run at a time)
    runPc,          \* "idle", or "collecting" the futures of the file tasks
    runNo,          \* the runs begun so far
    runIncr,        \* the incremental flag of the current or last run
    runTree,        \* the tree as the current or last run found it
    collected,      \* the paths whose future the run has collected
    counts,         \* file_count, emb_count, skipped_count, total_files
    lastMeta,       \* what became of the final metadata write of the run
    failedStores,   \* paths whose store_file failed in the current or last run
    prevRun         \* the run before: its flag, whether it found the same tree
                    \* as the current run, whether a store_file failed in it

agentVars == <<projStatus, pathExists, storage, inPass, pending, updates, statsCalls>>

writerVars == <<wq, stopFlag, wpc, wtask, tasks, caller, stopPc, sentinelsLeft>>

storeVars == <<disk, files, nextFileId, lastInsertId, chunks, dimension, tpc, tloc>>

lifeVars == <<enabled, running, stop_event, thread, loopPc, passes, ctlPc, lastCall,
             signalled>>

runVars == <<runPc, runNo, runIncr, runTree, collected, counts, lastMeta, failedStores,
            prevRun>>

searchVars == <<cachedDim, lastSearch, searches, clearedDim>>

chunkVars == <<fsContent, storedPath, gctIndex, gctResult, gctRead>>

watchVars == <<fwDisk, fwDirExists, file_hashes, callbackSet, ticks, callbackCalls,
              changed_files>>

cancelVars == <<indexing_active, projectRow, stage, reqIncremental, delPc, deleteAt>>

smartVars == <<scContent, scLang, scSmart, scIdx, scSent, scBack, scPc>>

poolVars == <<executorQueue, executorThread, submitted, filePc, fileIdx, embState,
             embResult, semaphore>>

retryVars == <<riPc, riRetries, riDelays, riLast, riRows, riCalls>>

lockVars == <<wlLock, wlWatched, wlHashes, wlDisk, wlApiPc, wlLoopPc, wlCurrent, wlRemoved>>

registryVars == <<rgStatus, rgCacheId, rgCachePath, rgCall, rgResult>>

breakerVars == <<cbNow, cbFailures, cbOpenUntil, cbPc, cbAttempt, cbInvocations, cbLastErr, cbOutcome, cbBeganOpen, cbStreak, cbCalls>>

rateVars == <<rlClock, rlTimes, rlLock, rlPc, rlCalls>>

vars == <<agentVars, writerVars, storeVars, lifeVars, runVars, searchVars, chunkVars,
         watchVars, cancelVars, smartVars, poolVars, retryVars, lockVars, registryVars, breakerVars, rateVars>>

\* What a step of one component leaves alone: the other components.
AgentFrame ==
    UNCHANGED <<writerVars, storeVars, lifeVars, runVars, searchVars, chunkVars,
               watchVars, cancelVars, smartVars, poolVars, retryVars, lockVars, registryVars, breakerVars, rateVars>>
WriterFrame ==
    UNCHANGED <<agentVars, storeVars, lifeVars, runVars, searchVars, chunkVars,
               watchVars, cancelVars, smartVars, poolVars, retryVars, lockVars, registryVars, breakerVars, rateVars>>
StoreFrame ==
    UNCHANGED <<agentVars, writerVars, lifeVars, runVars, searchVars, chunkVars,
               watchVars, cancelVars, smartVars, poolVars, retryVars, lockVars, registryVars, breakerVars, rateVars>>
LifeFrame ==
    UNCHANGED <<agentVars, writerVars, storeVars, runVars, searchVars, chunkVars,
               watchVars, cancelVars, smartVars, poolVars, retryVars, lockVars, registryVars, breakerVars, rateVars>>
RunFrame ==
    UNCHANGED <<agentVars, writerVars, lifeVars, searchVars, chunkVars,
               watchVars, cancelVars, smartVars, poolVars, retryVars, lockVars, registryVars, breakerVars, rateVars>>
SearchFrame == UNCHANGED <<agentVars, writerVars, lifeVars, runVars, chunkVars,
               watchVars, cancelVars, smartVars, poolVars, retryVars, lockVars, registryVars, breakerVars, rateVars>>
ChunkFrame ==
    UNCHANGED <<agentVars, writerVars, storeVars, lifeVars, runVars, searchVars,
               watchVars, cancelVars, smartVars, poolVars, retryVars, lockVars, registryVars, breakerVars, rateVars>>

-----------------------------------------------------------------------------
(***************************************************************************)
(*                  IndexSyncAgent (index_sync_agent.py)                   *)
(***************************************************************************)

\* The registry holds one project: id, path and database_path are NOT NULL
\* columns (operations.py:390-399), so the "missing required fields" return
\* of _reconcile_project (204-206) is never taken for a registry row.
ProjectIds == {"p1"}

Statuses == {"created", "indexing", "ready", "error"}

\* The counts the stats of a project database can report (the values the
\* repository's tests use: 0/0, 10/50, 5/0).
FileCounts == {0, 5, 10}
EmbeddingCounts == {0, 50}

\* The project database as the agent sees it: the file may be missing
\* (os.path.exists(db_path)), its stats may be unreadable (get_project_stats
\* raises or returns None), or it reports its counts.
StorageValues ==
    {[db |-> d, file_count |-> 0, embedding_count |-> 0] : d \in {"nodb", "unreadable"}}
    \cup [db : {"ok"}, file_count : FileCounts, embedding_count : EmbeddingCounts]

\* _get_project_stats returns a stats dictionary (not None).
StatsReadable(st) == st.db = "ok"

\* Variant: files without embeddings are forced to "error".
StatusFromStats_ForceError(stats) ==
    IF stats.file_count = 0 THEN "created"
    ELSE IF stats.embedding_count > 0 THEN "ready"
    ELSE "error"

\* Variant: files without embeddings are reported as "indexing".
StatusFromStats_Indexing(stats) ==
    IF stats.file_count = 0 THEN "created"
    ELSE IF stats.embedding_count > 0 THEN "ready"
    ELSE "indexing"

\* The status derived from stats that were read (lines 268-281).
StatusFromStats(stats) ==
    IF stats.file_count = 0 THEN "created"
    ELSE IF stats.embedding_count > 0 THEN "ready"
    ELSE None

\* _compute_actual_status: "created", "ready" or None (cannot determine).
ComputeActualStatus(st) ==
    IF st.db = "nodb" THEN "created"
    ELSE IF ~StatsReadable(st) THEN None
    ELSE StatusFromStats(st)

\* Whether _compute_actual_status calls get_project_stats (line 262).
ConsultsStats(st) == st.db # "nodb"

\* Variant: the missing-path branch writes whatever the status is.
PathMissingUpdate_Always(current) == TRUE

\* The missing-path branch writes unless the status already is "error" (211).
PathMissingUpdate(current) == current # "error"

\* Variant: every determinate status is written, changed or not.
NeedsUpdate_Always(actual, current) == actual # None

\* "If status has changed, update it" (line 226).
NeedsUpdate(actual, current) == actual # None /\ actual # current

\* metadata["last_indexed_at"] is set only with "ready" (lines 231-233).
SetsLastIndexed(actual) == actual = "ready"

UpdateCall(id, status, lastIndexed) ==
    [project_id |-> id, status |-> status, last_indexed_at |-> lastIndexed]

InitAgent ==
    /\ projStatus = [p \in ProjectIds |-> "created"]
    /\ pathExists = [p \in ProjectIds |-> TRUE]
    /\ storage = [p \in ProjectIds |->
                    [db |-> "nodb", file_count |-> 0, embedding_count |-> 0]]
    /\ inPass = FALSE
    /\ pending = <<>>
    /\ updates = <<>>
    /\ statsCalls = <<>>

\* A sequence listing the set S (list_projects returns the rows in some order).
RECURSIVE SeqOfSet(_)
SeqOfSet(S) ==
    IF S = {} THEN <<>>
    ELSE LET x == CHOOSE y \in S : TRUE
         IN  <<x>> \o SeqOfSet(S \ {x})

\* _reconcile_once, up to the loop: the listing is a snapshot of the registry.
ReconcileBegin ==
    /\ ~inPass
    /\ inPass' = TRUE
    /\ pending' = [i \in 1..Cardinality(ProjectIds) |->
                    [id |-> SeqOfSet(ProjectIds)[i],
                     status |-> projStatus[SeqOfSet(ProjectIds)[i]]]]
    /\ updates' = <<>>
    /\ statsCalls' = <<>>
    /\ UNCHANGED <<projStatus, pathExists, storage>>
    /\ AgentFrame

\* _reconcile_project on the next project of the listing.
ReconcileProject ==
    /\ inPass
    /\ pending # <<>>
    /\ LET project == Head(pending)
           id == project.id
           current == project.status
           actual == ComputeActualStatus(storage[id])
       IN  /\ pending' = Tail(pending)
           /\ IF ~pathExists[id]
              THEN /\ statsCalls' = statsCalls
                   /\ IF PathMissingUpdate(current)
                      THEN /\ updates' = Append(updates, UpdateCall(id, "error", FALSE))
                           /\ projStatus' = [projStatus EXCEPT ![id] = "error"]
                      ELSE UNCHANGED <<updates, projStatus>>
              ELSE /\ statsCalls' = IF ConsultsStats(storage[id])
                                    THEN Append(statsCalls, id)
                                    ELSE statsCalls
                   /\ IF NeedsUpdate(actual, current)
                      THEN /\ updates' = Append(updates,
                                  UpdateCall(id, actual, SetsLastIndexed(actual)))
                           /\ projStatus' = [projStatus EXCEPT ![id] = actual]
                      ELSE UNCHANGED <<updates, projStatus>>
    /\ UNCHANGED <<pathExists, storage, inPass>>
    /\ AgentFrame

\* The loop of _reconcile_once is over: the pass returns.
ReconcileEnd ==
    /\ inPass
    /\ pending = <<>>
    /\ inPass' = FALSE
    /\ UNCHANGED <<projStatus, pathExists, storage, pending, updates, statsCalls>>
    /\ AgentFrame

\* The rest of the application writes the status (api_index_project sets
\* "indexing", the index callback "ready" or "error").
SetStatus(p, s) ==
    /\ projStatus[p] # s
    /\ projStatus' = [projStatus EXCEPT ![p] = s]
    /\ UNCHANGED <<pathExists, storage, inPass, pending, updates, statsCalls>>
    /\ AgentFrame

\* The project directory is removed or put back.
PathChange(p) ==
    /\ pathExists' = [pathExists EXCEPT ![p] = ~pathExists[p]]
    /\ UNCHANGED <<projStatus, storage, inPass, pending, updates, statsCalls>>
    /\ AgentFrame

\* The project database is created, indexed into, cleared or damaged.
StorageChange(p, st) ==
    /\ storage[p] # st
    /\ storage' = [storage EXCEPT ![p] = st]
    /\ UNCHANGED <<projStatus, pathExists, inPass, pending, updates, statsCalls>>
    /\ AgentFrame

NextAgent ==
    \/ ReconcileBegin
    \/ ReconcileProject
    \/ ReconcileEnd
    \/ \E p \in ProjectIds, s \in Statuses : SetStatus(p, s)
    \/ \E p \in ProjectIds : PathChange(p)
    \/ \E p \in ProjectIds, st \in StorageValues : StorageChange(p, st)


-----------------------------------------------------------------------------
(***************************************************************************)
(*                        DBWriter (db_writer.py)                          *)
(*                                                                         *)
(* The connection of a worker is taken to open (_open_conn succeeds): the  *)
(* workers start in the loop of _worker.                                   *)
(***************************************************************************)

\* num_workers of the writer (get_writer: min(4, cpu) unless configured).
NumWorkers == 2

\* Tasks enqueued in one behaviour.
MaxTasks == 2

Workers == 1..NumWorkers
TaskIds == 1..MaxTasks

\* The None that stop() enqueues for each worker.
Sentinel == 0

\* _DBTask after the worker ran its statement: rowid or exception, event set.
\* "early" records that the task was enqueued before stop() was called.
NewTask(early) ==
    [event |-> FALSE, rowid |-> FALSE, exception |-> FALSE, early |-> early]

\* Variant: a failing statement ends the worker thread.
WorkerAfterTask_Crash(failed) == IF failed THEN "exited" ELSE "loop"

\* After a task the worker goes round its loop, failed statement or not
\* (the except clause of lines 68-75 swallows the exception).
WorkerAfterTask(failed) == "loop"

\* while not self._stop.is_set(): the loop ends once the flag is set.
ExitsOnStopFlag(flag) == flag

\* Variant: the item a worker gets stays at the head of the queue.
QueueAfterGet_Peek(q) == q

\* queue.Queue.get removes the item it returns, under the queue's mutex.
QueueAfterGet(q) == Tail(q)

InitWriter ==
    /\ wq = <<>>
    /\ stopFlag = FALSE
    /\ wpc = [w \in Workers |-> "loop"]
    /\ wtask = [w \in Workers |-> Sentinel]
    /\ tasks = <<>>
    /\ caller = <<>>
    /\ stopPc = "idle"
    /\ sentinelsLeft = 0

\* enqueue_and_wait, up to the wait: a task is created and put on the queue.
EnqueueAndWait ==
    /\ Len(tasks) < MaxTasks
    /\ tasks' = Append(tasks, NewTask(~stopFlag))
    /\ caller' = Append(caller, "waiting")
    /\ wq' = Append(wq, Len(tasks) + 1)
    /\ UNCHANGED <<stopFlag, wpc, wtask, stopPc, sentinelsLeft>>
    /\ WriterFrame

\* enqueue_no_wait: nobody waits for the task.
EnqueueNoWait ==
    /\ Len(tasks) < MaxTasks
    /\ tasks' = Append(tasks, NewTask(~stopFlag))
    /\ caller' = Append(caller, "nowait")
    /\ wq' = Append(wq, Len(tasks) + 1)
    /\ UNCHANGED <<stopFlag, wpc, wtask, stopPc, sentinelsLeft>>
    /\ WriterFrame

\* task.event.wait returned True: the caller raises task.exception or
\* returns task.rowid.
CallerWake(t) ==
    /\ caller[t] = "waiting"
    /\ tasks[t].event
    /\ caller' = [caller EXCEPT ![t] = IF tasks[t].exception THEN "raised"
                                       ELSE "returned"]
    /\ UNCHANGED <<wq, stopFlag, wpc, wtask, tasks, stopPc, sentinelsLeft>>
    /\ WriterFrame

\* task.event.wait timed out: the caller raises TimeoutError.
CallerTimeout(t) ==
    /\ caller[t] = "waiting"
    /\ ~tasks[t].event
    /\ caller' = [caller EXCEPT ![t] = "timeout"]
    /\ UNCHANGED <<wq, stopFlag, wpc, wtask, tasks, stopPc, sentinelsLeft>>
    /\ WriterFrame

\* The loop condition of _worker.
WorkerCheckStop(w) ==
    /\ wpc[w] = "loop"
    /\ wpc' = [wpc EXCEPT ![w] = IF ExitsOnStopFlag(stopFlag) THEN "exited"
                                 ELSE "get"]
    /\ UNCHANGED <<wq, stopFlag, wtask, tasks, caller, stopPc, sentinelsLeft>>
    /\ WriterFrame

\* self._q.get returned an item: a sentinel ends the worker, a task is run.
WorkerGet(w) ==
    /\ wpc[w] = "get"
    /\ wq # <<>>
    /\ wq' = QueueAfterGet(wq)
    /\ IF Head(wq) = Sentinel
       THEN /\ wpc' = [wpc EXCEPT ![w] = "exited"]
            /\ wtask' = wtask
       ELSE /\ wpc' = [wpc EXCEPT ![w] = "exec"]
            /\ wtask' = [wtask EXCEPT ![w] = Head(wq)]
    /\ UNCHANGED <<stopFlag, tasks, caller, stopPc, sentinelsLeft>>
    /\ WriterFrame

\* self._q.get(timeout=0.5) raised queue.Empty: continue.
WorkerGetTimeout(w) ==
    /\ wpc[w] = "get"
    /\ wq = <<>>
    /\ wpc' = [wpc EXCEPT ![w] = "loop"]
    /\ UNCHANGED <<wq, stopFlag, wtask, tasks, caller, stopPc, sentinelsLeft>>
    /\ WriterFrame

\* The statement of the task is executed: it commits and the row id is
\* stored, or it raises and the exception is stored; the event is set.
WorkerExec(w) ==
    /\ wpc[w] = "exec"
    /\ \E failed \in BOOLEAN :
          /\ tasks' = [tasks EXCEPT ![wtask[w]] =
                          [@ EXCEPT !.event = TRUE,
                                    !.rowid = ~failed,
                                    !.exception = failed]]
          /\ wpc' = [wpc EXCEPT ![w] = WorkerAfterTask(failed)]
    /\ wtask' = [wtask EXCEPT ![w] = Sentinel]
    /\ UNCHANGED <<wq, stopFlag, caller, stopPc, sentinelsLeft>>
    /\ WriterFrame

Worker(w) ==
    \/ WorkerCheckStop(w)
    \/ WorkerGet(w)
    \/ WorkerGetTimeout(w)
    \/ WorkerExec(w)

\* stop(): the flag is set first.
StopBegin ==
    /\ stopPc = "idle"
    /\ stopFlag' = TRUE
    /\ stopPc' = "put"
    /\ sentinelsLeft' = NumWorkers
    /\ UNCHANGED <<wq, wpc, wtask, tasks, caller>>
    /\ WriterFrame

\* stop(): one sentinel per worker is enqueued.
StopPutSentinel ==
    /\ stopPc = "put"
    /\ sentinelsLeft > 0
    /\ wq' = Append(wq, Sentinel)
    /\ sentinelsLeft' = sentinelsLeft - 1
    /\ stopPc' = IF sentinelsLeft = 1 THEN "join" ELSE "put"
    /\ UNCHANGED <<stopFlag, wpc, wtask, tasks, caller>>
    /\ WriterFrame

\* stop(): every join has returned, the worker having exited or the 5 s
\* having passed.
StopJoin ==
    /\ stopPc = "join"
    /\ stopPc' = "done"
    /\ UNCHANGED <<wq, stopFlag, wpc, wtask, tasks, caller, sentinelsLeft>>
    /\ WriterFrame

NextWriter ==
    \/ EnqueueAndWait
    \/ EnqueueNoWait
    \/ \E t \in TaskIds : t <= Len(tasks) /\ CallerWake(t)
    \/ \E t \in TaskIds : t <= Len(tasks) /\ CallerTimeout(t)
    \/ \E w \in Workers : WorkerCheckStop(w)
    \/ \E w \in Workers : WorkerGet(w)
    \/ \E w \in Workers : WorkerGetTimeout(w)
    \/ \E w \in Workers : WorkerExec(w)
    \/ StopBegin
    \/ StopPutSentinel
    \/ StopJoin

-----------------------------------------------------------------------------
(***************************************************************************)
(*      The project database under the indexing pipeline                   *)
(*      (operations.py, vector_operations.py, ai/analyzer.py)              *)
(*                                                                         *)
(* A file task is one call of _process_file_sync on a pool thread.  Every  *)
(* step below is one statement that commits on its own connection, or one  *)
(* call that leaves the database alone, so the steps of different tasks    *)
(* interleave freely.                                                      *)
(***************************************************************************)

\* The files of the source tree.
Paths == {"a.py", "b.py"}

\* Pool threads: file tasks of the pipeline, or direct callers of
\* insert_chunk_vector_with_retry.
Threads == {"t1", "t2"}

\* The workers of the project database's writer that execute the store_file
\* statements, each on a connection of its own.
NumStoreWorkers == 1
StoreWorkers == 1..NumStoreWorkers

\* File contents (what compute_file_hash tells apart) and modification times.
Contents == {"c1", "c2"}
Mtimes == {1, 2}

\* What else a file task may find at a path: open() or getmtime() raises, or
\* the file is empty.
Unreadable == "unreadable"
Empty == ""
DiskContents == Contents \cup {Unreadable, Empty}

\* detect_language: by the suffix of the path; unknown suffixes are "text".
DetectLanguage(p) == IF p \in {"a.py", "b.py"} THEN "python" ELSE "text"

\* Lines 112-127: the file can be read, is not empty and is not "text".
Indexable(p, content) ==
    /\ content # Unreadable
    /\ content # Empty
    /\ DetectLanguage(p) # "text"

\* The number of chunks the chunker cuts a content into.
ChunkCount(c) == IF c = "c1" THEN 1 ELSE 2

\* The lengths of the vectors handed to insert_chunk_vector_with_retry, and
\* the one length a provider that keeps to its contract returns.
Dims == {2, 3}
ProviderDims == {2}

\* No row in vector_meta for key 'dimension'.
NoDim == 0

\* Rows the chunks table holds at most in one behaviour.
MaxChunks == 2

\* Rows ever inserted into files in one behaviour.
MaxFileId == 2

\* compute_file_hash: the SHA-256 digest of the content, which tells the
\* contents of the model apart.
ComputeFileHash(c) ==
    IF c = "c1" THEN "h1" ELSE IF c = "c2" THEN "h2" ELSE "h0"

NoFile == [id |-> 0, hash |-> "h0", mtime |-> 0]

\* The locals of a thread that is not running.
IdleLoc ==
    [task |-> "file", path |-> "a.py", inc |-> FALSE, content |-> "c1", mtime |-> 0,
     fid |-> 0, idx |-> 0, vec |-> 0, result |-> "none", embedded |-> FALSE]

\* The dict a file task returns, from how it ended.
ReturnDict(loc) ==
    [stored |-> loc.result \notin {"none", "rejected", "skipped", "store_failed",
                                   "crashed"},
     embedded |-> loc.embedded,
     skipped |-> loc.result = "skipped"]

ChunkRow(fid, idx, vec) == [file_id |-> fid, chunk_index |-> idx, dim |-> vec]

\* The chunks table is a bag of rows without their rowid (no caller uses
\* the rowid): the rows the table holds, each with its multiplicity.
NoChunks == <<>>

ChunkRows == DOMAIN chunks

ChunkCopies(r) == IF r \in DOMAIN chunks THEN chunks[r] ELSE 0

RECURSIVE SumCopies(_)
SumCopies(S) ==
    IF S = {} THEN 0
    ELSE LET r == CHOOSE x \in S : TRUE
         IN  chunks[r] + SumCopies(S \ {r})

ChunkTotal == SumCopies(DOMAIN chunks)

\* INSERT INTO chunks: one more copy of the row.
WithChunk(r) ==
    [x \in DOMAIN chunks \cup {r} |-> ChunkCopies(x) + (IF x = r THEN 1 ELSE 0)]

\* Variant: a file counts as changed only when mtime and hash both differ.
NeedsReindex_Both(row, current_mtime, current_hash) ==
    \/ row.id = 0
    \/ row.mtime # current_mtime /\ row.hash # current_hash

\* needs_reindex: no row, or the stored mtime or hash differs (a stored row
\* always has both, store_file writes them together).
NeedsReindex(row, current_mtime, current_hash) ==
    \/ row.id = 0
    \/ row.mtime # current_mtime
    \/ row.hash # current_hash

\* Variant: a mismatching vector is stored as if it matched.
DimensionCheck_Coerce(stored, dim) ==
    IF stored = NoDim THEN "set" ELSE "insert"

\* "dimension handling: store or verify" (vector_operations.py:143-159):
\* what the call does next given the row it read and the vector's length.
DimensionCheck(stored, dim) ==
    IF stored = NoDim THEN "set"
    ELSE IF stored # dim THEN "mismatch"
    ELSE "insert"

\* The tree before any edit.
InitTree == [p \in Paths |-> [content |-> "c1", mtime |-> 1]]

InitStore ==
    /\ disk = InitTree
    /\ files = [p \in Paths |-> NoFile]
    /\ nextFileId = 1
    /\ lastInsertId = [w \in StoreWorkers |-> 0]
    /\ chunks = NoChunks
    /\ dimension = NoDim
    /\ tpc = [t \in Threads |-> "idle"]
    /\ tloc = [t \in Threads |-> IdleLoc]

\* The user edits or touches a file of the tree.
EditFile(p, c, m) ==
    /\ disk[p] # [content |-> c, mtime |-> m]
    /\ disk' = [disk EXCEPT ![p] = [content |-> c, mtime |-> m]]
    /\ UNCHANGED <<files, nextFileId, lastInsertId, chunks, dimension, tpc, tloc>>
    /\ StoreFrame

\* _process_file_sync, lines 112-141: the file is read and, in incremental
\* mode, dropped when needs_reindex says it is unchanged.
ProcBegin(t, p, incremental) ==
    /\ tpc[t] = "idle"
    /\ IF ~Indexable(p, disk[p].content)
       THEN /\ tloc' = [tloc EXCEPT ![t] = [IdleLoc EXCEPT !.path = p,
                                                          !.inc = incremental,
                                                          !.result = "rejected"]]
            /\ tpc' = tpc
       ELSE IF incremental
               /\ ~NeedsReindex(files[p], disk[p].mtime,
                                ComputeFileHash(disk[p].content))
       THEN /\ tloc' = [tloc EXCEPT ![t] = [IdleLoc EXCEPT !.path = p,
                                                          !.inc = incremental,
                                                          !.result = "skipped"]]
            /\ tpc' = tpc
       ELSE /\ tloc' = [tloc EXCEPT ![t] = [IdleLoc EXCEPT !.path = p,
                                              !.inc = incremental,
                                              !.content = disk[p].content,
                                              !.mtime = disk[p].mtime]]
            /\ tpc' = [tpc EXCEPT ![t] = "store"]
    /\ UNCHANGED <<disk, files, nextFileId, lastInsertId, chunks, dimension>>
    /\ StoreFrame

\* The upsert of store_file as a writer worker executes it on its
\* connection: a new row gets the next id; an existing row is updated in
\* place, and cursor.lastrowid is then what the connection inserted last.
StoreFileReturn(row, w) ==
    IF row.id = 0 THEN nextFileId ELSE lastInsertId[w]

\* _process_file_sync, lines 143-148: store_file through the writer.
ProcStoreFile(t, w) ==
    /\ tpc[t] = "store"
    /\ LET p == tloc[t].path
           row == files[p]
       IN  /\ row.id = 0 => nextFileId <= MaxFileId
           /\ files' = [files EXCEPT ![p] =
                          [id |-> IF row.id = 0 THEN nextFileId ELSE row.id,
                           hash |-> ComputeFileHash(tloc[t].content),
                           mtime |-> tloc[t].mtime]]
           /\ nextFileId' = IF row.id = 0 THEN nextFileId + 1 ELSE nextFileId
           /\ lastInsertId' = IF row.id = 0
                              THEN [lastInsertId EXCEPT ![w] = nextFileId]
                              ELSE lastInsertId
           /\ tloc' = [tloc EXCEPT ![t].fid = StoreFileReturn(row, w)]
    /\ tpc' = [tpc EXCEPT ![t] = "embed"]
    /\ UNCHANGED <<disk, chunks, dimension>>
    /\ StoreFrame

\* store_file raised (the write failed or timed out): the task gives up.
ProcStoreFileFails(t) ==
    /\ tpc[t] = "store"
    /\ tpc' = [tpc EXCEPT ![t] = "idle"]
    /\ tloc' = [tloc EXCEPT ![t] = [IdleLoc EXCEPT !.path = tloc[t].path,
                                                   !.result = "store_failed"]]
    /\ UNCHANGED <<disk, files, nextFileId, lastInsertId, chunks, dimension>>
    /\ StoreFrame

\* Lines 150-182: the chunking or the check of the extension and the tables
\* raises before the first chunk: the outer except returns all False.
ProcSetupFails(t) ==
    /\ tpc[t] = "embed"
    /\ tloc[t].idx = 0
    /\ tpc' = [tpc EXCEPT ![t] = "idle"]
    /\ tloc' = [tloc EXCEPT ![t] = [IdleLoc EXCEPT !.path = tloc[t].path,
                                                   !.result = "crashed"]]
    /\ UNCHANGED <<disk, files, nextFileId, lastInsertId, chunks, dimension>>
    /\ StoreFrame

\* Variant: the first chunk that fails ends the file task.
AfterChunk_AbortOnFailure(t, result) ==
    IF tloc[t].task = "file" /\ tloc[t].idx + 1 < ChunkCount(tloc[t].content)
       /\ result = "inserted"
    THEN /\ tpc' = [tpc EXCEPT ![t] = "embed"]
         /\ tloc' = [tloc EXCEPT ![t].idx = @ + 1, ![t].vec = 0,
                                 ![t].result = result, ![t].embedded = TRUE]
    ELSE /\ tpc' = [tpc EXCEPT ![t] = "idle"]
         /\ tloc' = [tloc EXCEPT ![t] =
                        [IdleLoc EXCEPT !.task = tloc[t].task,
                                        !.path = tloc[t].path,
                                        !.result = result,
                                        !.embedded = tloc[t].embedded
                                                       \/ result = "inserted"]]

\* insert_chunk_vector_with_retry has returned or raised: a file task goes
\* on to its next chunk or returns after the last one, a direct caller is
\* done.
AfterChunk(t, result) ==
    IF tloc[t].task = "file" /\ tloc[t].idx + 1 < ChunkCount(tloc[t].content)
    THEN /\ tpc' = [tpc EXCEPT ![t] = "embed"]
         /\ tloc' = [tloc EXCEPT ![t].idx = @ + 1, ![t].vec = 0,
                                 ![t].result = result,
                                 ![t].embedded = @ \/ result = "inserted"]
    ELSE /\ tpc' = [tpc EXCEPT ![t] = "idle"]
         /\ tloc' = [tloc EXCEPT ![t] =
                        [IdleLoc EXCEPT !.task = tloc[t].task,
                                        !.path = tloc[t].path,
                                        !.result = result,
                                        !.embedded = tloc[t].embedded
                                                       \/ result = "inserted"]]

\* Lines 204-226: the embedding of the chunk arrives: a vector, or nothing
\* (the call failed or timed out).
ProcEmbed(t, vec) ==
    /\ tpc[t] = "embed"
    /\ IF vec = 0
       THEN AfterChunk(t, "no_embedding")
       ELSE /\ tpc' = [tpc EXCEPT ![t] = "read_dim"]
            /\ tloc' = [tloc EXCEPT ![t].vec = vec, ![t].result = "none"]
    /\ UNCHANGED <<disk, files, nextFileId, lastInsertId, chunks, dimension>>
    /\ StoreFrame

\* A thread calls insert_chunk_vector_with_retry(conn, fid, path, idx,
\* vector) on a connection of its own, with a vector of length vec.
InsertCall(t, fid, idx, vec) ==
    /\ tpc[t] = "idle"
    /\ tpc' = [tpc EXCEPT ![t] = "read_dim"]
    /\ tloc' = [tloc EXCEPT ![t] = [IdleLoc EXCEPT !.task = "call", !.fid = fid,
                                                   !.idx = idx, !.vec = vec]]
    /\ UNCHANGED <<disk, files, nextFileId, lastInsertId, chunks, dimension>>
    /\ StoreFrame

\* insert_chunk_vector_with_retry, lines 143-159: the recorded dimension is
\* read; a mismatch raises "Embedding dimension mismatch".
InsertReadDim(t) ==
    /\ tpc[t] = "read_dim"
    /\ LET next == DimensionCheck(dimension, tloc[t].vec)
       IN  IF next = "mismatch"
           THEN AfterChunk(t, "mismatch")
           ELSE /\ tpc' = [tpc EXCEPT ![t] = IF next = "set" THEN "set_dim"
                                             ELSE "insert"]
                /\ tloc' = tloc
    /\ UNCHANGED <<disk, files, nextFileId, lastInsertId, chunks, dimension>>
    /\ StoreFrame

\* set_vector_dimension (INSERT OR REPLACE, committed), then vector_init,
\* which may raise.
InsertSetDim(t, initOk) ==
    /\ tpc[t] = "set_dim"
    /\ dimension' = tloc[t].vec
    /\ IF initOk
       THEN /\ tpc' = [tpc EXCEPT ![t] = "insert"]
            /\ tloc' = tloc
       ELSE AfterChunk(t, "init_failed")
    /\ UNCHANGED <<disk, files, nextFileId, lastInsertId, chunks>>
    /\ StoreFrame

\* _insert_with_retry: the chunk row is inserted and committed.
InsertRow(t) ==
    /\ tpc[t] = "insert"
    /\ ChunkTotal < MaxChunks
    /\ chunks' = WithChunk(ChunkRow(tloc[t].fid, tloc[t].idx, tloc[t].vec))
    /\ AfterChunk(t, "inserted")
    /\ UNCHANGED <<disk, files, nextFileId, lastInsertId, dimension>>
    /\ StoreFrame

\* _insert_with_retry gave up (locked through every retry, or another
\* error): RuntimeError, no row.
InsertRowFails(t) ==
    /\ tpc[t] = "insert"
    /\ AfterChunk(t, "insert_failed")
    /\ UNCHANGED <<disk, files, nextFileId, lastInsertId, chunks, dimension>>
    /\ StoreFrame

\* Variant: clear_project_data leaves the recorded dimension in place.
DimensionAfterClear_Kept(d) == d

\* clear_project_data: "DELETE FROM vector_meta WHERE key = 'dimension'".
DimensionAfterClear(d) == NoDim

\* clear_project_data: one transaction deletes the chunks, the files and
\* the recorded dimension.
ClearProjectData ==
    /\ chunks' = NoChunks
    /\ files' = [p \in Paths |-> NoFile]
    /\ dimension' = DimensionAfterClear(dimension)
    /\ clearedDim' = dimension
    /\ UNCHANGED <<disk, nextFileId, lastInsertId, tpc, tloc>>
    /\ UNCHANGED <<cachedDim, lastSearch, searches>>
    /\ SearchFrame

\* search_vectors calls in one behaviour.
MaxSearches == 2

\* Lines 223-235: the dimension search_vectors goes on with: the cached one
\* if there is one, else the recorded one (NoDim: it returns []).
SearchDim(cached, stored) == IF cached # NoDim THEN cached ELSE stored

\* Variant: the cache is not used.
SearchDim_NoCache(cached, stored) == stored

InitSearch ==
    /\ cachedDim = NoDim
    /\ lastSearch = "none"
    /\ searches = 0
    /\ clearedDim = NoDim

\* search_vectors on the project database. Without a dimension to go on
\* with it returns []; else it caches the dimension, calls vector_init,
\* which may raise, and scans the chunks.
SearchVectors(initOk) ==
    /\ searches < MaxSearches
    /\ searches' = searches + 1
    /\ LET dim == SearchDim(cachedDim, dimension)
       IN  IF dim = NoDim
           THEN /\ lastSearch' = "no_dimension"
                /\ cachedDim' = cachedDim
           ELSE /\ cachedDim' = dim
                /\ lastSearch' = IF ~initOk THEN "raised"
                                 ELSE IF ChunkRows = {} THEN "empty"
                                 ELSE "rows"
    /\ UNCHANGED <<clearedDim, storeVars>>
    /\ SearchFrame

\* search_vectors on another database of the same process, in which the
\* dimension d is recorded: with nothing cached yet, line 235 caches d.
SearchOther(d) ==
    /\ cachedDim = NoDim
    /\ cachedDim' = d
    /\ UNCHANGED <<lastSearch, searches, clearedDim, storeVars>>
    /\ SearchFrame

\* The store under concurrent callers of insert_chunk_vector_with_retry.
NextStore ==
    \/ \E t \in Threads, vec \in Dims : InsertCall(t, 1, 0, vec)
    \/ \E t \in Threads : InsertReadDim(t)
    \/ \E t \in Threads, ok \in BOOLEAN : InsertSetDim(t, ok)
    \/ \E t \in Threads : InsertRow(t)
    \/ \E t \in Threads : InsertRowFails(t)
    \/ ClearProjectData
    \/ \E ok \in BOOLEAN : SearchVectors(ok)
    \/ \E d \in Dims : SearchOther(d)

\* The store under indexing runs: the file tasks of one pool thread, with a
\* provider that returns vectors of one length or nothing.
IndexThreads == {"t1"}

NextIndex ==
    \/ \E p \in Paths, c \in Contents, m \in Mtimes : EditFile(p, c, m)
    \/ \E t \in IndexThreads, p \in Paths, inc \in BOOLEAN : ProcBegin(t, p, inc)
    \/ \E t \in IndexThreads, w \in StoreWorkers : ProcStoreFile(t, w)
    \/ \E t \in IndexThreads : ProcStoreFileFails(t)
    \/ \E t \in IndexThreads : ProcSetupFails(t)
    \/ \E t \in IndexThreads, vec \in ProviderDims \cup {0} : ProcEmbed(t, vec)
    \/ \E t \in IndexThreads : InsertReadDim(t)
    \/ \E t \in IndexThreads, ok \in BOOLEAN : InsertSetDim(t, ok)
    \/ \E t \in IndexThreads : InsertRow(t)
    \/ \E t \in IndexThreads : InsertRowFails(t)
    \/ ClearProjectData

-----------------------------------------------------------------------------
(***************************************************************************)
(*        IndexSyncAgent lifecycle: start, stop, _run_loop                 *)
(*                                                                         *)
(* What one pass of the loop does to the registry is ReconcileBegin ..     *)
(* ReconcileEnd above; here a pass is the time a loop thread spends in     *)
(* _reconcile_once.                                                        *)
(***************************************************************************)

\* Loop threads created in one behaviour.
MaxLoopThreads == 2

LoopThreads == 1..MaxLoopThreads

\* Reconcile passes one loop thread begins in one behaviour.
MaxPasses == 2

\* self._thread is None.
NoThread == 0

\* Thread.is_alive()
IsAlive(t) == t \in LoopThreads /\ loopPc[t] \in {"loop", "pass"}

\* The loop threads that have not been created yet.
Unborn == {t \in LoopThreads : loopPc[t] = "unborn"}

\* Variant: start() does not look at _running.
StartIsNoop_Never(isRunning) == FALSE

\* start(): "if self._running: ... return"
StartIsNoop(isRunning) == isRunning

InitLife ==
    /\ enabled = TRUE
    /\ running = FALSE
    /\ stop_event = FALSE
    /\ thread = NoThread
    /\ loopPc = [t \in LoopThreads |-> "unborn"]
    /\ passes = [t \in LoopThreads |-> 0]
    /\ ctlPc = "new"
    /\ lastCall = "none"
    /\ signalled = {}

\* IndexSyncAgent(db_client, enabled=en)
AgentNew(en) ==
    /\ ctlPc = "new"
    /\ enabled' = en
    /\ ctlPc' = "idle"
    /\ lastCall' = "new"
    /\ UNCHANGED <<running, stop_event, thread, loopPc, passes, signalled>>
    /\ LifeFrame

\* start()
AgentStart ==
    /\ ctlPc = "idle"
    /\ IF ~enabled
       THEN /\ lastCall' = "start_disabled"
            /\ UNCHANGED <<running, stop_event, thread, loopPc>>
       ELSE IF StartIsNoop(running)
       THEN /\ lastCall' = "start_noop"
            /\ UNCHANGED <<running, stop_event, thread, loopPc>>
       ELSE /\ Unborn # {}
            /\ LET t == CHOOSE x \in Unborn : \A y \in Unborn : x <= y
               IN  /\ stop_event' = FALSE
                   /\ running' = TRUE
                   /\ thread' = t
                   /\ loopPc' = [loopPc EXCEPT ![t] = "loop"]
            /\ lastCall' = "start"
    /\ UNCHANGED <<enabled, passes, ctlPc, signalled>>
    /\ LifeFrame

\* stop(), up to the join: a no-op when not running, else the event is set.
AgentStop ==
    /\ ctlPc = "idle"
    /\ IF ~running
       THEN /\ lastCall' = "stop_noop"
            /\ UNCHANGED <<stop_event, ctlPc, signalled>>
       ELSE /\ stop_event' = TRUE
            /\ signalled' = signalled \cup {t \in LoopThreads : IsAlive(t)}
            /\ ctlPc' = "join"
            /\ lastCall' = "stop"
    /\ UNCHANGED <<enabled, running, thread, loopPc, passes>>
    /\ LifeFrame

\* stop(): the thread is None or has exited, or the join returns because it
\* exits.
AgentStopJoined ==
    /\ ctlPc = "join"
    /\ ~IsAlive(thread)
    /\ running' = FALSE
    /\ thread' = NoThread
    /\ ctlPc' = "idle"
    /\ lastCall' = "stopped"
    /\ UNCHANGED <<enabled, stop_event, loopPc, passes, signalled>>
    /\ LifeFrame

\* stop(): join(timeout) returns with the thread still alive ("did not stop
\* within"): stop() returns all the same.
AgentStopTimeout ==
    /\ ctlPc = "join"
    /\ IsAlive(thread)
    /\ running' = FALSE
    /\ thread' = NoThread
    /\ ctlPc' = "idle"
    /\ lastCall' = "stop_timeout"
    /\ UNCHANGED <<enabled, stop_event, loopPc, passes, signalled>>
    /\ LifeFrame

\* _run_loop: "while not self._stop_event.is_set()", reached at the start
\* and after each wait.
LoopTest(t) ==
    /\ loopPc[t] = "loop"
    /\ IF stop_event
       THEN /\ loopPc' = [loopPc EXCEPT ![t] = "exited"]
            /\ passes' = passes
       ELSE /\ passes[t] < MaxPasses
            /\ loopPc' = [loopPc EXCEPT ![t] = "pass"]
            /\ passes' = [passes EXCEPT ![t] = @ + 1]
    /\ UNCHANGED <<enabled, running, stop_event, thread, ctlPc, lastCall, signalled>>
    /\ LifeFrame

\* _run_loop: _reconcile_once returns (or raises, which is caught) and the
\* wait on the event ends, by timeout or because the event is set.
LoopPass(t) ==
    /\ loopPc[t] = "pass"
    /\ loopPc' = [loopPc EXCEPT ![t] = "loop"]
    /\ UNCHANGED <<enabled, running, stop_event, thread, passes, ctlPc, lastCall,
                   signalled>>
    /\ LifeFrame

NextLife ==
    \/ \E en \in BOOLEAN : AgentNew(en)
    \/ AgentStart
    \/ AgentStop
    \/ AgentStopJoined
    \/ AgentStopTimeout
    \/ \E t \in LoopThreads : LoopTest(t)
    \/ \E t \in LoopThreads : LoopPass(t)

-----------------------------------------------------------------------------
(***************************************************************************)
(*        analyze_local_path_sync: one indexing run over the tree          *)
(*                                                                         *)
(* The run submits one file task per enumerated file to the pool, collects *)
(* the futures as they complete and ends with the metadata write. The      *)
(* file tasks are the actions of _process_file_sync above; the future of   *)
(* a path is read off the thread that runs its task.                       *)
(***************************************************************************)

\* Runs begun in one behaviour.
MaxRuns == 2

\* Files of the tree that differ from the initial tree at any one time.
MaxEdited == 1

\* The pool thread that runs the task of a path.
TaskThread(p) == IF p = "a.py" THEN "t1" ELSE "t2"

ZeroCounts == [file_count |-> 0, emb_count |-> 0, skipped_count |-> 0, total_files |-> 0]

\* Future.done() of the task of p: it has begun and has returned.
FutureDone(p) ==
    /\ tpc[TaskThread(p)] = "idle"
    /\ tloc[TaskThread(p)].result # "none"

\* The task of p has been submitted and no thread has begun it yet.
FuturePending(p) ==
    /\ tpc[TaskThread(p)] = "idle"
    /\ tloc[TaskThread(p)].result = "none"

\* Variant: the collector counts every returned task as skipped.
CountResult_AllSkipped(c, r) ==
    [c EXCEPT !.file_count = @ + (IF r.stored THEN 1 ELSE 0),
              !.emb_count = @ + (IF r.embedded THEN 1 ELSE 0),
              !.skipped_count = @ + 1]

\* Lines 360-366: the counters after the dict r of one task.
CountResult(c, r) ==
    [c EXCEPT !.file_count = @ + (IF r.stored THEN 1 ELSE 0),
              !.emb_count = @ + (IF r.embedded THEN 1 ELSE 0),
              !.skipped_count = @ + (IF r.skipped THEN 1 ELSE 0)]

\* Variant: the run returns after the first future.
AllCollected_First == collected # {}

\* Lines 327-376: the loops end when every submitted future was yielded.
AllCollected == collected = Paths

InitRun ==
    /\ runPc = "idle"
    /\ runNo = 0
    /\ runIncr = TRUE
    /\ runTree = InitTree
    /\ collected = {}
    /\ counts = ZeroCounts
    /\ lastMeta = "none"
    /\ failedStores = {}
    /\ prevRun = [inc |-> FALSE, sameTree |-> FALSE, storeFailed |-> FALSE]

\* Lines 275-348: a run begins: the files of the tree are enumerated and one
\* task per file is submitted.
RunBegin(incremental) ==
    /\ runPc = "idle"
    /\ runNo < MaxRuns
    /\ runPc' = "collecting"
    /\ runNo' = runNo + 1
    /\ runIncr' = incremental
    /\ collected' = {}
    /\ counts' = [ZeroCounts EXCEPT !.total_files = Cardinality(Paths)]
    /\ runTree' = disk
    /\ prevRun' = [inc |-> runIncr, sameTree |-> runTree = disk,
                   storeFailed |-> failedStores # {}]
    /\ failedStores' = {}
    /\ lastMeta' = "none"
    /\ UNCHANGED storeVars
    /\ RunFrame

\* A pool thread begins the task of p.
RunTask(p) ==
    /\ runPc = "collecting"
    /\ FuturePending(p)
    /\ ProcBegin(TaskThread(p), p, runIncr)

\* Lines 350-366: as_completed yields the finished future of p and its
\* dict is counted.
RunCollect(p) ==
    /\ runPc = "collecting"
    /\ p \notin collected
    /\ FutureDone(p)
    /\ collected' = collected \cup {p}
    /\ counts' = CountResult(counts, ReturnDict(tloc[TaskThread(p)]))
    /\ failedStores' = IF tloc[TaskThread(p)].result = "store_failed"
                       THEN failedStores \cup {p} ELSE failedStores
    /\ UNCHANGED <<runPc, runNo, runIncr, runTree, lastMeta, prevRun, storeVars>>
    /\ RunFrame

\* Lines 378-394: every future has been collected: the final metadata
\* write, which may fail (logged), and the run returns; its futures are
\* dropped.
RunFinish(metaOk) ==
    /\ runPc = "collecting"
    /\ AllCollected
    /\ runPc' = "idle"
    /\ lastMeta' = IF metaOk THEN "written" ELSE "failed"
    /\ tloc' = [t \in Threads |-> IdleLoc]
    /\ UNCHANGED <<runNo, runIncr, runTree, collected, counts, failedStores, prevRun>>
    /\ UNCHANGED <<disk, files, nextFileId, lastInsertId, chunks, dimension, tpc>>
    /\ RunFrame

\* The user changes the tree between two runs; the file gets a new mtime.
RunEdit(p, c, m) ==
    /\ runPc = "idle"
    /\ m # InitTree[p].mtime
    /\ runNo < MaxRuns
    /\ Cardinality({q \in Paths \ {p} : disk[q] # InitTree[q]}) < MaxEdited
    /\ EditFile(p, c, m)

\* A step of the file task of p after its beginning.
TaskStep(p) ==
    LET t == TaskThread(p)
    IN  \/ \E w \in StoreWorkers : ProcStoreFile(t, w)
        \/ ProcStoreFileFails(t)
        \/ ProcSetupFails(t)
        \/ \E vec \in ProviderDims \cup {0} : ProcEmbed(t, vec)
        \/ InsertReadDim(t)
        \/ \E ok \in BOOLEAN : InsertSetDim(t, ok)
        \/ InsertRow(t)
        \/ InsertRowFails(t)

NextRun ==
    \/ \E inc \in BOOLEAN : RunBegin(inc)
    \/ \E p \in Paths : RunTask(p)
    \/ \E p \in Paths : RunCollect(p)
    \/ \E ok \in BOOLEAN : RunFinish(ok)
    \/ \E p \in Paths, c \in DiskContents, m \in Mtimes : RunEdit(p, c, m)
    \/ \E t \in Threads, w \in StoreWorkers : ProcStoreFile(t, w)
    \/ \E t \in Threads : ProcStoreFileFails(t)
    \/ \E t \in Threads : ProcSetupFails(t)
    \/ \E t \in Threads, vec \in ProviderDims \cup {0} : ProcEmbed(t, vec)
    \/ \E t \in Threads : InsertReadDim(t)
    \/ \E t \in Threads, ok \in BOOLEAN : InsertSetDim(t, ok)
    \/ \E t \in Threads : InsertRow(t)
    \/ \E t \in Threads : InsertRowFails(t)

-----------------------------------------------------------------------------
(***************************************************************************)
(* get_chunk_text (src/db/vector_operations.py) and chunk_text             *)
(* (src/utils/utils.py): a chunk is read back from the file on disk.       *)
(* A text is a sequence of characters, a path a sequence of components.    *)
(***************************************************************************)

\* CHUNK_SIZE and CHUNK_OVERLAP of ai/analyzer.py (800 and 100), scaled to
\* the texts of the model.
ChunkSize == 3
ChunkOverlap == 1

\* The characters of a file and the longest file.
Alphabet == {"x", "y"}
MaxLen == 4

\* The chunk indexes get_chunk_text is called with.
MaxChunkIndex == 3

Texts == UNION {[1..n -> Alphabet] : n \in 0..MaxLen}

MinOf(a, b) == IF a < b THEN a ELSE b
MaxOf(a, b) == IF a > b THEN a ELSE b

\* Python's text[start:end] for 0 <= start, 0 <= end <= len(text).
Slice(text, start, end) ==
    IF start >= end THEN <<>> ELSE SubSeq(text, start + 1, end)

\* chunk_text, lines 30-37: the loop from a start position on.
RECURSIVE ChunkLoop(_, _, _, _)
ChunkLoop(text, start, chunk_size, step) ==
    IF start < Len(text)
    THEN <<Slice(text, start, MinOf(start + chunk_size, Len(text)))>>
             \o ChunkLoop(text, start + step, chunk_size, step)
    ELSE <<>>

\* chunk_text(text, chunk_size, overlap).
chunk_text(text, chunk_size, overlap) ==
    IF chunk_size <= 0
    THEN <<text>>
    ELSE ChunkLoop(text, 0, chunk_size, MaxOf(1, chunk_size - overlap))

\* What get_chunk_text returns: None, or a text.
NotCalled == [kind |-> "not_called", text |-> <<>>]
NoText == [kind |-> "None", text |-> <<>>]
Text(s) == [kind |-> "str", text |-> s]

\* Variant: the chunks do not overlap.
ChunkStart_NoOverlap(chunk_index) == chunk_index * ChunkSize

\* get_chunk_text, lines 353-354: where chunk chunk_index starts.
ChunkStart(chunk_index) == chunk_index * MaxOf(1, ChunkSize - ChunkOverlap)

\* get_chunk_text, lines 335-356: the chunk of a content that was read.
ExtractChunk(content, chunk_index) ==
    IF content = <<>> THEN NoText
    ELSE IF ChunkSize <= 0 THEN Text(content)
    ELSE IF chunk_index < 0 THEN NoText
    ELSE LET start == ChunkStart(chunk_index)
             end == MinOf(start + ChunkSize, Len(content))
         IN  Text(Slice(content, start, end))

\* The filesystem: the project lives in /home/proj and holds a.py and the
\* symbolic link "link" to /home/other, which holds a file a.py too.
ProjectPath == <<"home", "proj">>
ProjectFile == <<"home", "proj", "a.py">>
LinkPath == <<"home", "proj", "link">>
LinkTarget == <<"home", "other">>
OutsideFile == <<"home", "other", "a.py">>
OutsideContent == <<"y", "y">>

\* The components of a stored path, and its longest length.
Components == {"..", "a.py", "link", "other"}
MaxDepth == 3

\* files.path values: relative to the project, or absolute.
StoredPaths ==
    [abs : BOOLEAN, parts : UNION {[1..n -> Components] : n \in 1..MaxDepth}]

\* os.path.join(project_path, file_path): an absolute file_path replaces
\* the project path.
JoinPath(project_path, file_path) ==
    IF file_path.abs THEN file_path.parts ELSE project_path \o file_path.parts

\* One component added to a resolved directory, as the kernel walks it:
\* ".." goes to the parent (the parent of / is /), a symbolic link is
\* replaced by its target.
Walk(dir, name) ==
    IF name = ".."
    THEN (IF dir = <<>> THEN <<>> ELSE SubSeq(dir, 1, Len(dir) - 1))
    ELSE IF Append(dir, name) = LinkPath THEN LinkTarget
    ELSE Append(dir, name)

\* The file a path leads to, as open() finds it.
RECURSIVE Physical(_, _)
Physical(dir, rest) ==
    IF rest = <<>> THEN dir ELSE Physical(Walk(dir, Head(rest)), Tail(rest))

\* os.path.normpath: ".." removes the component before it, no link is
\* followed.
RECURSIVE Normpath(_, _)
Normpath(dir, rest) ==
    IF rest = <<>> THEN dir
    ELSE Normpath(IF Head(rest) = ".."
                  THEN (IF dir = <<>> THEN <<>> ELSE SubSeq(dir, 1, Len(dir) - 1))
                  ELSE Append(dir, Head(rest)),
                  Tail(rest))

\* Variant: the path is normalised without resolving symbolic links.
Realpath_Lexical(path) == Normpath(<<>>, path)

\* os.path.abspath(os.path.realpath(path)) of an absolute path.
Realpath(path) == Physical(<<>>, path)

IsPrefix(a, b) == Len(a) <= Len(b) /\ SubSeq(b, 1, Len(a)) = a

\* Lines 306-313: commonpath([full_path, root]) == root, and full_path is
\* root or starts with root + os.sep.
WithinProject(full_path, root) ==
    /\ IsPrefix(root, full_path)
    /\ (full_path = root \/ (Len(full_path) > Len(root) /\ IsPrefix(root, full_path)))

\* open(full_path).read(): the content of the file there, if it is one.
NoSuchFile == [exists |-> FALSE, content |-> <<>>]
FileAt(location) ==
    IF location = ProjectFile THEN [exists |-> TRUE, content |-> fsContent]
    ELSE IF location = OutsideFile THEN [exists |-> TRUE, content |-> OutsideContent]
    ELSE NoSuchFile

NoRead == <<>>

InitChunk ==
    /\ fsContent = <<>>
    /\ storedPath = [abs |-> FALSE, parts |-> <<"a.py">>]
    /\ gctIndex = 0
    /\ gctResult = NotCalled
    /\ gctRead = NoRead

\* The file of the project is written.
WriteFile(content) ==
    /\ fsContent' = content
    /\ gctResult' = NotCalled
    /\ gctRead' = NoRead
    /\ gctIndex' = 0
    /\ UNCHANGED storedPath
    /\ ChunkFrame

\* The files row get_chunk_text looks up holds the path file_path.
StoreRecord(file_path) ==
    /\ storedPath' = file_path
    /\ gctResult' = NotCalled
    /\ gctRead' = NoRead
    /\ gctIndex' = 0
    /\ UNCHANGED fsContent
    /\ ChunkFrame

\* get_chunk_text(database_path, file_id, chunk_index) on a database that
\* records the project path and a files row of that id.
GetChunkText(chunk_index) ==
    /\ gctIndex' = chunk_index
    /\ LET full_path == Realpath(JoinPath(ProjectPath, storedPath))
           normalized_project_path == Realpath(ProjectPath)
       IN  IF ~WithinProject(full_path, normalized_project_path)
           THEN /\ gctResult' = NoText
                /\ gctRead' = NoRead
           ELSE LET location == Physical(<<>>, full_path)
                    file == FileAt(location)
                IN  IF ~file.exists
                    THEN /\ gctResult' = NoText
                         /\ gctRead' = NoRead
                    ELSE /\ gctResult' = ExtractChunk(file.content, chunk_index)
                         /\ gctRead' = location
    /\ UNCHANGED <<fsContent, storedPath>>
    /\ ChunkFrame

NextChunk ==
    \/ \E content \in Texts : WriteFile(content)
    \/ \E file_path \in StoredPaths : StoreRecord(file_path)
    \/ \E chunk_index \in 0..MaxChunkIndex : GetChunkText(chunk_index)

-----------------------------------------------------------------------------
(***************************************************************************)
(* FileWatcher (src/utils/file_watcher.py): one watched project, the       *)
(* watch thread that checks it, and the user who edits its files.          *)
(***************************************************************************)

WatchFrame ==
    UNCHANGED <<agentVars, writerVars, storeVars, lifeVars, runVars, searchVars,
               chunkVars,
               cancelVars, smartVars, poolVars, retryVars, lockVars, registryVars, breakerVars, rateVars>>

\* The monitored files of the project, by relative path.
WatchedFiles == {"a.py", "b.py"}

\* A signature "mtime|size", or NoSig for a path that is not in the map.
NoSig == 0
Signatures == {1, 2}

\* _check_project calls in one behaviour.
MaxTicks == 3

\* _scan_directory: the signature of every monitored file that is there.
ScanDirectory(tree) == tree

\* The keys of a signature map.
Keys(map) == {f \in WatchedFiles : map[f] # NoSig}

\* Variant: deleted files are not looked for.
ChangedFiles_NoDeleted(old_hashes, current_hashes) ==
    {f \in Keys(current_hashes) :
        f \notin Keys(old_hashes) \/ old_hashes[f] # current_hashes[f]}

\* _check_project, lines 254-264: the new or modified files, then the
\* deleted ones.
ChangedFiles(old_hashes, current_hashes) ==
    {f \in Keys(current_hashes) :
        f \notin Keys(old_hashes) \/ old_hashes[f] # current_hashes[f]}
    \cup {f \in Keys(old_hashes) : f \notin Keys(current_hashes)}

\* __init__, then add_project on a directory that holds a.py.
InitWatch ==
    /\ fwDisk = [f \in WatchedFiles |-> IF f = "a.py" THEN 1 ELSE NoSig]
    /\ fwDirExists = TRUE
    /\ file_hashes = ScanDirectory(fwDisk)
    /\ callbackSet = FALSE
    /\ ticks = 0
    /\ callbackCalls = 0
    /\ changed_files = {}

\* set_on_change_callback.
SetOnChangeCallback ==
    /\ ~callbackSet
    /\ callbackSet' = TRUE
    /\ UNCHANGED <<fwDisk, fwDirExists, file_hashes, ticks, callbackCalls,
                   changed_files>>
    /\ WatchFrame

\* The user creates, rewrites or deletes a file of the project.
WatchedEdit(f, sig) ==
    /\ fwDirExists
    /\ fwDisk[f] # sig
    /\ fwDisk' = [fwDisk EXCEPT ![f] = sig]
    /\ UNCHANGED <<fwDirExists, file_hashes, callbackSet, ticks, callbackCalls,
                   changed_files>>
    /\ WatchFrame

\* The user removes the project directory, or puts it back (empty).
WatchedDir(exists) ==
    /\ fwDirExists # exists
    /\ fwDirExists' = exists
    /\ fwDisk' = [f \in WatchedFiles |-> NoSig]
    /\ UNCHANGED <<file_hashes, callbackSet, ticks, callbackCalls, changed_files>>
    /\ WatchFrame

\* _check_project on the watched project.
CheckProject ==
    /\ ticks < MaxTicks
    /\ ticks' = ticks + 1
    /\ IF ~fwDirExists
       THEN UNCHANGED <<file_hashes, callbackCalls, changed_files>>
       ELSE LET current_hashes == ScanDirectory(fwDisk)
                changed == ChangedFiles(file_hashes, current_hashes)
            IN  IF changed = {}
                THEN UNCHANGED <<file_hashes, callbackCalls, changed_files>>
                ELSE /\ file_hashes' = current_hashes
                     /\ IF callbackSet
                        THEN /\ callbackCalls' = callbackCalls + 1
                             /\ changed_files' = changed
                        ELSE UNCHANGED <<callbackCalls, changed_files>>
    /\ UNCHANGED <<fwDisk, fwDirExists, callbackSet>>
    /\ WatchFrame

NextWatch ==
    \/ SetOnChangeCallback
    \/ \E f \in WatchedFiles, sig \in Signatures \cup {NoSig} : WatchedEdit(f, sig)
    \/ \E exists \in BOOLEAN : WatchedDir(exists)
    \/ CheckProject

-----------------------------------------------------------------------------
(***************************************************************************)
(* api_index_project, its background index_callback and                    *)
(* api_delete_project (src/endpoints/project_endpoints.py), for one        *)
(* project: the handlers run on threads of the server's pool.              *)
(***************************************************************************)

CancelFrame ==
    UNCHANGED <<agentVars, writerVars, storeVars, lifeVars, runVars, searchVars,
               chunkVars, watchVars, smartVars, poolVars, retryVars, lockVars, registryVars, breakerVars, rateVars>>

\* The index requests made for the project in one behaviour.
MaxRequests == 2
Requests == 1..MaxRequests

\* The stages in which index_callback works on the project.
WorkStages == {"files", "extract", "store", "full_extract", "full_store"}

InitCancel ==
    /\ indexing_active = FALSE
    /\ projectRow = TRUE
    /\ stage = [r \in Requests |-> "none"]
    /\ reqIncremental = [r \in Requests |-> TRUE]
    /\ delPc = "idle"
    /\ deleteAt = [r \in Requests |-> "none"]

\* api_index_project, lines 291-293: the project is looked up; without its
\* row the request ends with 404.
IndexLookup(r, incr) ==
    /\ stage[r] = "none"
    /\ stage' = [stage EXCEPT ![r] = IF projectRow THEN "found" ELSE "not_found"]
    /\ reqIncremental' = [reqIncremental EXCEPT ![r] = incr]
    /\ UNCHANGED <<indexing_active, projectRow, delPc, deleteAt>>
    /\ CancelFrame

\* api_index_project, lines 295-383: the database is prepared, the flag is
\* set and index_callback is handed to the background tasks, where it
\* begins with analyze_local_path_sync.
IndexStart(r) ==
    /\ stage[r] = "found"
    /\ indexing_active' = TRUE
    /\ stage' = [stage EXCEPT ![r] = "files"]
    /\ UNCHANGED <<projectRow, reqIncremental, delPc, deleteAt>>
    /\ CancelFrame

\* The check "if not indexing_active.get(project_id, False): return" that
\* follows a stage: the stage the callback goes on with.
AfterCheck(goOn) == IF indexing_active THEN goOn ELSE "cancelled"

\* index_callback, lines 341-349: file processing has ended.
FilesDone(r) ==
    /\ stage[r] = "files"
    /\ stage' = [stage EXCEPT ![r] = AfterCheck("extract")]
    /\ UNCHANGED <<indexing_active, projectRow, reqIncremental, delPc, deleteAt>>
    /\ CancelFrame

\* index_callback, lines 349-354: the direct dependencies are extracted.
ExtractDone(r) ==
    /\ stage[r] = "extract"
    /\ stage' = [stage EXCEPT ![r] = AfterCheck("store")]
    /\ UNCHANGED <<indexing_active, projectRow, reqIncremental, delPc, deleteAt>>
    /\ CancelFrame

\* index_callback, lines 354-362 and 373-374: the direct dependencies are
\* stored; an reqIncremental run then sets the status 'ready' and clears the
\* flag, a full run goes on to the transitive dependencies.
StoreDone(r) ==
    /\ stage[r] = "store"
    /\ IF reqIncremental[r]
       THEN /\ stage' = [stage EXCEPT ![r] = "ready"]
            /\ indexing_active' = FALSE
       ELSE /\ stage' = [stage EXCEPT ![r] = "full_extract"]
            /\ UNCHANGED indexing_active
    /\ UNCHANGED <<projectRow, reqIncremental, delPc, deleteAt>>
    /\ CancelFrame

\* index_callback, lines 362-366: the transitive dependencies are extracted.
FullExtractDone(r) ==
    /\ stage[r] = "full_extract"
    /\ stage' = [stage EXCEPT ![r] = AfterCheck("full_store")]
    /\ UNCHANGED <<indexing_active, projectRow, reqIncremental, delPc, deleteAt>>
    /\ CancelFrame

\* index_callback, lines 366-374: the transitive dependencies are stored,
\* the status is set to 'ready' and the flag is cleared.
FullStoreDone(r) ==
    /\ stage[r] = "full_store"
    /\ stage' = [stage EXCEPT ![r] = "ready"]
    /\ indexing_active' = FALSE
    /\ UNCHANGED <<projectRow, reqIncremental, delPc, deleteAt>>
    /\ CancelFrame

\* index_callback, lines 375-378: a stage raises; the status becomes
\* 'error'.
StageRaises(r) ==
    /\ stage[r] \in WorkStages
    /\ stage' = [stage EXCEPT ![r] = "error"]
    /\ UNCHANGED <<indexing_active, projectRow, reqIncremental, delPc, deleteAt>>
    /\ CancelFrame

\* api_delete_project, lines 242-243: the delete request arrives and
\* clears the flag.
DeleteArrives ==
    /\ delPc = "idle"
    /\ delPc' = "cleared"
    /\ indexing_active' = FALSE
    /\ deleteAt' = [r \in Requests |->
                      IF stage[r] \in WorkStages THEN stage[r] ELSE deleteAt[r]]
    /\ UNCHANGED <<projectRow, stage, reqIncremental>>
    /\ CancelFrame

\* api_delete_project, lines 252-260: delete_project removes the row, or
\* fails.
DeleteProject(ok) ==
    /\ delPc = "cleared"
    /\ delPc' = "done"
    /\ projectRow' = (projectRow /\ ~ok)
    /\ UNCHANGED <<indexing_active, stage, reqIncremental, deleteAt>>
    /\ CancelFrame

NextCancel ==
    \/ \E r \in Requests, incr \in BOOLEAN : IndexLookup(r, incr)
    \/ \E r \in Requests : IndexStart(r)
    \/ \E r \in Requests : FilesDone(r)
    \/ \E r \in Requests : ExtractDone(r)
    \/ \E r \in Requests : StoreDone(r)
    \/ \E r \in Requests : FullExtractDone(r)
    \/ \E r \in Requests : FullStoreDone(r)
    \/ \E r \in Requests : StageRaises(r)
    \/ DeleteArrives
    \/ \E ok \in BOOLEAN : DeleteProject(ok)

-----------------------------------------------------------------------------
(***************************************************************************)
(* The chunks _process_file_sync embeds (src/ai/analyzer.py lines 156-199, *)
(* src/ai/smart_chunker.py) and get_chunk_text reading them back.          *)
(* The code of the model is Python without indentation: "d" stands for     *)
(* the keyword that begins a definition line ("def ", "class ").           *)
(***************************************************************************)

SmartFrame ==
    UNCHANGED <<agentVars, writerVars, storeVars, lifeVars, runVars, searchVars,
               chunkVars, watchVars, cancelVars, poolVars, retryVars, lockVars, registryVars, breakerVars, rateVars>>

\* The characters of a source file and the longest file.
CodeAlphabet == {"d", "x", "\n"}
MaxCodeLen == 6

CodeTexts == UNION {[1..n -> CodeAlphabet] : n \in 1..MaxCodeLen}

\* Languages: one of supported_languages, and one that is not.
Languages == {"python", "markdown"}
SupportedLanguages == {"python"}

\* text.split("\n"), with cur the line being read.
RECURSIVE SplitLines(_, _)
SplitLines(rest, cur) ==
    IF rest = <<>> THEN <<cur>>
    ELSE IF Head(rest) = "\n" THEN <<cur>> \o SplitLines(Tail(rest), <<>>)
    ELSE SplitLines(Tail(rest), Append(cur, Head(rest)))

\* "\n".join(lines).
RECURSIVE JoinLines(_)
JoinLines(lines) ==
    IF lines = <<>> THEN <<>>
    ELSE IF Len(lines) = 1 THEN lines[1]
    ELSE lines[1] \o <<"\n">> \o JoinLines(Tail(lines))

\* stripped.startswith("class ") or stripped.startswith("def ").
StartsDefinition(line) == line # <<>> /\ line[1] = "d"

\* _split_python, lines 122-165: the loop from line i on, with the units
\* made so far, current_unit, and whether indent_stack is populated.
RECURSIVE SplitPython(_, _, _, _, _)
SplitPython(lines, i, units, current_unit, in_def) ==
    IF i > Len(lines)
    THEN (IF current_unit # <<>> THEN Append(units, JoinLines(current_unit))
          ELSE units)
    ELSE LET line == lines[i]
         IN  IF StartsDefinition(line)
             THEN SplitPython(lines, i + 1,
                              IF current_unit # <<>>
                              THEN Append(units, JoinLines(current_unit))
                              ELSE units,
                              <<line>>, TRUE)
             ELSE IF current_unit # <<>>
             THEN (IF /\ line # <<>>
                      /\ in_def
                      /\ i < Len(lines)
                      /\ StartsDefinition(lines[i + 1])
                   THEN SplitPython(lines, i + 1,
                                    Append(units, JoinLines(current_unit)),
                                    <<line>>, FALSE)
                   ELSE SplitPython(lines, i + 1, units,
                                    Append(current_unit, line), in_def))
             ELSE SplitPython(lines, i + 1, units, <<line>>, in_def)

\* _split_into_units for Python.
SplitIntoUnits(text) == SplitPython(SplitLines(text, <<>>), 1, <<>>, <<>>, FALSE)

\* SmartChunker._chunk_simple.
ChunkSimple(text) ==
    IF text = <<>> THEN <<>>
    ELSE IF Len(text) <= ChunkSize THEN <<text>>
    ELSE ChunkLoop(text, 0, ChunkSize, MaxOf(1, ChunkSize - ChunkOverlap))

\* _chunk_code, lines 51-90: the loop from unit i on, with the chunks made
\* so far and current_chunk.
RECURSIVE ChunkUnits(_, _, _, _, _)
ChunkUnits(units, i, made, current_chunk, current_size) ==
    IF i > Len(units)
    THEN (IF current_chunk # <<>> THEN Append(made, JoinLines(current_chunk))
          ELSE made)
    ELSE LET unit_text == units[i]
             unit_size == Len(unit_text)
         IN  IF unit_size > ChunkSize
             THEN ChunkUnits(units, i + 1,
                             (IF current_chunk # <<>>
                              THEN Append(made, JoinLines(current_chunk))
                              ELSE made) \o ChunkSimple(unit_text),
                             <<>>, 0)
             ELSE IF current_size + unit_size > ChunkSize /\ current_chunk # <<>>
             THEN (IF Len(current_chunk) > 1
                   THEN ChunkUnits(units, i + 1,
                                   Append(made, JoinLines(current_chunk)),
                                   <<current_chunk[Len(current_chunk)], unit_text>>,
                                   Len(current_chunk[Len(current_chunk)]) + unit_size)
                   ELSE ChunkUnits(units, i + 1,
                                   Append(made, JoinLines(current_chunk)),
                                   <<unit_text>>, unit_size))
             ELSE ChunkUnits(units, i + 1, made, Append(current_chunk, unit_text),
                             current_size + unit_size)

\* SmartChunker._chunk_code.
ChunkCode(text) ==
    LET units == SplitIntoUnits(text)
    IN  IF units = <<>> THEN ChunkSimple(text)
        ELSE LET made == ChunkUnits(units, 1, <<>>, <<>>, 0)
             IN  IF made # <<>> THEN made ELSE <<text>>

\* smart_chunk(text, language, CHUNK_SIZE, CHUNK_OVERLAP).
smart_chunk(text, language) ==
    IF language \in SupportedLanguages THEN ChunkCode(text) ELSE ChunkSimple(text)

\* _process_file_sync, lines 156-166: the chunks of a file.
PipelineChunks(content, lang, use_smart_chunking) ==
    LET made == IF use_smart_chunking /\ lang \in SupportedLanguages
                THEN smart_chunk(content, lang)
                ELSE chunk_text(content, ChunkSize, ChunkOverlap)
    IN  IF made = <<>> THEN <<content>> ELSE made

InitSmart ==
    /\ scContent = <<"x">>
    /\ scLang = "python"
    /\ scSmart = TRUE
    /\ scIdx = 0
    /\ scSent = NotCalled
    /\ scBack = NotCalled
    /\ scPc = "new"

\* The user has written the file (not empty, of a language the pipeline
\* indexes) and chosen the configuration.
SmartWrite(content, lang, use_smart_chunking) ==
    /\ scPc = "new"
    /\ scPc' = "written"
    /\ scContent' = content
    /\ scLang' = lang
    /\ scSmart' = use_smart_chunking
    /\ UNCHANGED <<scIdx, scSent, scBack>>
    /\ SmartFrame

\* _process_file_sync, lines 177-241: chunk idx of the file is sent to the
\* embedding provider and stored with its index.
EmbedChunk(idx) ==
    /\ scPc = "written"
    /\ LET made == PipelineChunks(scContent, scLang, scSmart)
       IN  /\ idx < Len(made)
           /\ scSent' = Text(made[idx + 1])
    /\ scIdx' = idx
    /\ scPc' = "embedded"
    /\ UNCHANGED <<scContent, scLang, scSmart, scBack>>
    /\ SmartFrame

\* get_chunk_text(database_path, file_id, idx) for the chunk stored last,
\* the file unchanged.
ReadBack ==
    /\ scPc = "embedded"
    /\ scBack' = ExtractChunk(scContent, scIdx)
    /\ scPc' = "read"
    /\ UNCHANGED <<scContent, scLang, scSmart, scIdx, scSent>>
    /\ SmartFrame

NextSmart ==
    \/ \E content \in CodeTexts, lang \in Languages, use_smart_chunking \in BOOLEAN :
          SmartWrite(content, lang, use_smart_chunking)
    \/ \E idx \in 0..MaxCodeLen : EmbedChunk(idx)
    \/ ReadBack

-----------------------------------------------------------------------------
(***************************************************************************)
(* The shared executor (src/ai/analyzer.py).  analyze_local_path_sync      *)
(* submits one _process_file_sync task per file to _EXECUTOR; each file    *)
(* task submits one _get_embedding_with_semaphore task per chunk to the    *)
(* same executor and waits for the futures in order, each with a timeout.  *)
(* An embedding task takes a permit of the run's semaphore for the length  *)
(* of the provider call.                                                   *)
(***************************************************************************)

\* _THREADPOOL_WORKERS (16 in the source), scaled down.
THREADPOOL_WORKERS == 2

\* EMBEDDING_CONCURRENCY (4 in the source), scaled down below the pool size.
EMBEDDING_CONCURRENCY == 1

\* Files of the run and chunks of each file (one batch: at most
\* EMBEDDING_BATCH_SIZE chunks, at most CHUNK_SUBMIT files).
PoolFiles == 3
PoolChunks == 2

PoolThreads == 1..THREADPOOL_WORKERS
FileTasks == 1..PoolFiles
EmbTasks == FileTasks \X (1..PoolChunks)

IdleThread == [kind |-> "idle", f |-> 0, i |-> 0]
FileTask(f) == [kind |-> "file", f |-> f, i |-> 0]
EmbTask(f, i) == [kind |-> "emb", f |-> f, i |-> i]

PoolFrame ==
    UNCHANGED <<agentVars, writerVars, storeVars, lifeVars, runVars, searchVars,
               chunkVars, watchVars, cancelVars, smartVars, retryVars, lockVars, registryVars, breakerVars, rateVars>>

\* Variant: the permit is never waited for.
SemaphoreFree_Always(permits) == TRUE

\* semaphore.acquire() returns only when a permit is free.
SemaphoreFree(permits) == permits > 0

InitPool ==
    /\ executorQueue = <<>>
    /\ executorThread = [t \in PoolThreads |-> IdleThread]
    /\ submitted = 0
    /\ filePc = [f \in FileTasks |-> "new"]
    /\ fileIdx = [f \in FileTasks |-> 0]
    /\ embState = [e \in EmbTasks |-> "none"]
    /\ embResult = [e \in EmbTasks |-> "pending"]
    /\ semaphore = EMBEDDING_CONCURRENCY

\* Lines 326-343: the main thread submits the next file task.
SubmitFileTask ==
    /\ submitted < PoolFiles
    /\ submitted' = submitted + 1
    /\ executorQueue' = Append(executorQueue, FileTask(submitted + 1))
    /\ filePc' = [filePc EXCEPT ![submitted + 1] = "queued"]
    /\ UNCHANGED <<executorThread, fileIdx, embState, embResult, semaphore>>
    /\ PoolFrame

\* ThreadPoolExecutor: a pool thread without work takes the oldest task of
\* the queue.  A file task starts towards its embedding batch, an embedding
\* task starts by asking for a permit (line 71).
ExecutorTake(t) ==
    /\ executorThread[t] = IdleThread
    /\ executorQueue # <<>>
    /\ LET task == Head(executorQueue) IN
        /\ executorThread' = [executorThread EXCEPT ![t] = task]
        /\ executorQueue' = Tail(executorQueue)
        /\ IF task.kind = "file"
             THEN /\ filePc' = [filePc EXCEPT ![task.f] = "submitting"]
                  /\ fileIdx' = [fileIdx EXCEPT ![task.f] = 1]
                  /\ UNCHANGED embState
             ELSE /\ embState' = [embState EXCEPT ![<<task.f, task.i>>] = "acquiring"]
                  /\ UNCHANGED <<filePc, fileIdx>>
    /\ UNCHANGED <<submitted, embResult, semaphore>>
    /\ PoolFrame

\* Lines 193-199: the file task submits the embedding task of its next chunk
\* to the same executor; after the last one it starts waiting (line 204).
SubmitEmbedding(f) ==
    /\ filePc[f] = "submitting"
    /\ executorQueue' = Append(executorQueue, EmbTask(f, fileIdx[f]))
    /\ embState' = [embState EXCEPT ![<<f, fileIdx[f]>>] = "queued"]
    /\ IF fileIdx[f] = PoolChunks
         THEN /\ filePc' = [filePc EXCEPT ![f] = "waiting"]
              /\ fileIdx' = [fileIdx EXCEPT ![f] = 1]
         ELSE /\ fileIdx' = [fileIdx EXCEPT ![f] = fileIdx[f] + 1]
              /\ UNCHANGED filePc
    /\ UNCHANGED <<executorThread, submitted, embResult, semaphore>>
    /\ PoolFrame

\* Line 71: semaphore.acquire() returns; the provider call starts (line 73).
AcquireSemaphore(t) ==
    /\ executorThread[t].kind = "emb"
    /\ embState[<<executorThread[t].f, executorThread[t].i>>] = "acquiring"
    /\ SemaphoreFree(semaphore)
    /\ semaphore' = semaphore - 1
    /\ embState' = [embState EXCEPT
                      ![<<executorThread[t].f, executorThread[t].i>>] = "calling"]
    /\ UNCHANGED <<executorQueue, executorThread, submitted, filePc, fileIdx,
                   embResult>>
    /\ PoolFrame

\* Lines 73-75: embed_text returns a vector (ok) or raises; the permit is
\* released in the finally clause and the pool thread is free again.
EmbedReturns(t, ok) ==
    /\ executorThread[t].kind = "emb"
    /\ embState[<<executorThread[t].f, executorThread[t].i>>] = "calling"
    /\ semaphore' = semaphore + 1
    /\ embState' = [embState EXCEPT
                      ![<<executorThread[t].f, executorThread[t].i>>] =
                          IF ok THEN "done" ELSE "failed"]
    /\ executorThread' = [executorThread EXCEPT ![t] = IdleThread]
    /\ UNCHANGED <<executorQueue, submitted, filePc, fileIdx, embResult>>
    /\ PoolFrame

\* The file task moves from the future of chunk fileIdx[f] to the next one;
\* after the last one it returns and its pool thread is free (line 262).
NextFuture(f, got) ==
    /\ embResult' = [embResult EXCEPT ![<<f, fileIdx[f]>>] = got]
    /\ IF fileIdx[f] = PoolChunks
         THEN /\ filePc' = [filePc EXCEPT ![f] = "done"]
              /\ executorThread' =
                    [t \in PoolThreads |->
                        IF executorThread[t] = FileTask(f) THEN IdleThread
                        ELSE executorThread[t]]
              /\ UNCHANGED fileIdx
         ELSE /\ fileIdx' = [fileIdx EXCEPT ![f] = fileIdx[f] + 1]
              /\ UNCHANGED <<filePc, executorThread>>

\* Lines 210, 224-241: future.result() hands back the outcome of a finished
\* embedding task; a vector is inserted as a chunk row.
FutureResult(f) ==
    /\ filePc[f] = "waiting"
    /\ embState[<<f, fileIdx[f]>>] \in {"done", "failed"}
    /\ NextFuture(f, IF embState[<<f, fileIdx[f]>>] = "done" THEN "saved"
                     ELSE "failed")
    /\ UNCHANGED <<executorQueue, submitted, embState, semaphore>>
    /\ PoolFrame

\* Lines 210, 216-219: EMBEDDING_TIMEOUT passes before the future is done.
\* The embedding task is not cancelled: it stays in the queue or goes on
\* running.  The outcome records whether the task had been started.
FutureTimeout(f) ==
    /\ filePc[f] = "waiting"
    /\ embState[<<f, fileIdx[f]>>] \in {"queued", "acquiring", "calling"}
    /\ NextFuture(f, IF embState[<<f, fileIdx[f]>>] = "queued"
                     THEN "timeout_unstarted" ELSE "timeout_running")
    /\ UNCHANGED <<executorQueue, submitted, embState, semaphore>>
    /\ PoolFrame

NextPool ==
    \/ SubmitFileTask
    \/ \E t \in PoolThreads : ExecutorTake(t)
    \/ \E f \in FileTasks : SubmitEmbedding(f)
    \/ \E t \in PoolThreads : AcquireSemaphore(t)
    \/ \E t \in PoolThreads, ok \in BOOLEAN : EmbedReturns(t, ok)
    \/ \E f \in FileTasks : FutureResult(f)
    \/ \E f \in FileTasks : FutureTimeout(f)

-----------------------------------------------------------------------------
(***************************************************************************)
(* The retried INSERT of insert_chunk_vector_with_retry                    *)
(* (src/db/vector_operations.py, lines 163-194).  The inner function       *)
(* _insert_with_retry is wrapped by retry_on_exception (utils/retry.py),   *)
(* which is modelled from the specification: a bounded number of retries   *)
(* on the listed exception types, with exponential backoff, after which    *)
(* the error is surfaced.  The connection is in WAL mode (connection.py    *)
(* line 48): a locked database fails the INSERT statement, not the commit. *)
(***************************************************************************)

RetryFrame ==
    UNCHANGED <<agentVars, writerVars, storeVars, lifeVars, runVars, searchVars,
               chunkVars, watchVars, cancelVars, smartVars, poolVars, lockVars, registryVars, breakerVars, rateVars>>

\* DB_LOCK_RETRY_COUNT and DB_LOCK_RETRY_BASE_DELAY (0.05 s, in hundredths
\* of a second).
DB_LOCK_RETRY_COUNT == 6
DB_LOCK_RETRY_BASE_DELAY == 5

\* Calls of insert_chunk_vector_with_retry in one behaviour.
MaxInsertCalls == 3

\* What an attempt can meet: the row is inserted and committed;
\* sqlite3.OperationalError('database is locked'); another
\* sqlite3.OperationalError; any other exception.
AttemptOutcomes == {"ok", "locked", "operational", "other"}

RECURSIVE Pow2(_)
Pow2(n) == IF n = 0 THEN 1 ELSE 2 * Pow2(n - 1)

\* Variant: every OperationalError is handed to the retry decorator.
InnerRaises_AnyOperational(outcome) ==
    IF outcome \in {"locked", "operational"} THEN "OperationalError"
    ELSE "RuntimeError"

\* Lines 176-184: the exception that leaves _insert_with_retry.  Only a
\* 'database is locked' OperationalError is re-raised as it is; every
\* other exception is wrapped in RuntimeError.
InnerRaises(outcome) ==
    IF outcome = "locked" THEN "OperationalError" ELSE "RuntimeError"

\* retry_on_exception(exceptions=(sqlite3.OperationalError,), ...): the
\* decorator retries the listed exception types only, max_retries times.
DecoratorRetries(exception, retries) ==
    exception = "OperationalError" /\ retries < DB_LOCK_RETRY_COUNT

\* exponential_backoff=True: the delay before retry number n (1, 2, ...).
BackoffDelay(n) == DB_LOCK_RETRY_BASE_DELAY * Pow2(n - 1)

InitRetry ==
    /\ riPc = "idle"
    /\ riRetries = 0
    /\ riDelays = <<>>
    /\ riLast = "none"
    /\ riRows = 0
    /\ riCalls = 0

\* Line 189: the call reaches _insert_with_retry().
InsertBegin ==
    /\ riPc \in {"idle", "returned", "raised"}
    /\ riCalls < MaxInsertCalls
    /\ riCalls' = riCalls + 1
    /\ riPc' = "try"
    /\ riRetries' = 0
    /\ riDelays' = <<>>
    /\ riLast' = "none"
    /\ UNCHANGED riRows
    /\ RetryFrame

\* Lines 172-184 and the decorator: one attempt.  A successful attempt
\* inserts and commits the row and returns its rowid; a failed one is
\* retried after a delay or raised.
InsertAttempt(outcome) ==
    /\ riPc = "try"
    /\ riLast' = outcome
    /\ IF outcome = "ok"
         THEN /\ riRows' = riRows + 1
              /\ riPc' = "returned"
              /\ UNCHANGED <<riRetries, riDelays>>
         ELSE /\ UNCHANGED riRows
              /\ IF DecoratorRetries(InnerRaises(outcome), riRetries)
                   THEN /\ riPc' = "sleep"
                        /\ riRetries' = riRetries + 1
                        /\ riDelays' = Append(riDelays, BackoffDelay(riRetries + 1))
                   ELSE /\ riPc' = "raised"
                        /\ UNCHANGED <<riRetries, riDelays>>
    /\ UNCHANGED riCalls
    /\ RetryFrame

\* The decorator's sleep is over: the next attempt.
InsertSleepDone ==
    /\ riPc = "sleep"
    /\ riPc' = "try"
    /\ UNCHANGED <<riRetries, riDelays, riLast, riRows, riCalls>>
    /\ RetryFrame

NextRetry ==
    \/ InsertBegin
    \/ \E outcome \in AttemptOutcomes : InsertAttempt(outcome)
    \/ InsertSleepDone

-----------------------------------------------------------------------------
(***************************************************************************)
(* FileWatcher (src/utils/file_watcher.py): one project, the thread that   *)
(* calls add_project and remove_project, and the watcher thread in         *)
(* _check_all_projects.  A change callback is registered.  A "with         *)
(* self._lock" block that only touches memory is one step taken while the  *)
(* lock is free; the block of add_project, which scans the directory, is   *)
(* entered in one step and left in another.                                *)
(***************************************************************************)

LockFrame ==
    UNCHANGED <<agentVars, writerVars, storeVars, lifeVars, runVars, searchVars,
               chunkVars, watchVars, cancelVars, smartVars, poolVars, retryVars, registryVars, breakerVars, rateVars>>

\* The signatures a scan of the directory can give.
DiskStates == {"s1", "s2", "s3"}

\* _check_project, lines 280-285: after the locked update the callback is
\* called, whether or not the project was still watched.
CallbackAfterUpdate(watched) == "callback"

InitLock ==
    /\ wlLock = "none"
    /\ wlWatched = FALSE
    /\ wlHashes = "s1"
    /\ wlDisk = "s1"
    /\ wlApiPc = "idle"
    /\ wlLoopPc = "idle"
    /\ wlCurrent = "s1"
    /\ wlRemoved = FALSE

\* The user changes the files of the project.
TreeChange(s) ==
    /\ wlDisk # s
    /\ wlDisk' = s
    /\ UNCHANGED <<wlLock, wlWatched, wlHashes, wlApiPc, wlLoopPc, wlCurrent,
                   wlRemoved>>
    /\ LockFrame

\* add_project, lines 163-176: the path exists; the lock is taken; a
\* project already watched ends the call, otherwise the entry is built.
AddProjectLock ==
    /\ wlApiPc = "idle"
    /\ wlLock = "none"
    /\ IF wlWatched
       THEN UNCHANGED <<wlLock, wlApiPc>>
       ELSE /\ wlLock' = "api"
            /\ wlApiPc' = "add_scan"
    /\ UNCHANGED <<wlWatched, wlHashes, wlDisk, wlLoopPc, wlCurrent, wlRemoved>>
    /\ LockFrame

\* add_project, lines 178-184: _scan_directory(project_path) returns, the
\* entry is stored and the lock is released.
AddProjectScanned ==
    /\ wlApiPc = "add_scan"
    /\ wlHashes' = wlDisk
    /\ wlWatched' = TRUE
    /\ wlRemoved' = FALSE
    /\ wlLock' = "none"
    /\ wlApiPc' = "idle"
    /\ UNCHANGED <<wlDisk, wlLoopPc, wlCurrent>>
    /\ LockFrame

\* remove_project, lines 193-196.
RemoveProject ==
    /\ wlApiPc = "idle"
    /\ wlLock = "none"
    /\ wlWatched' = FALSE
    /\ wlRemoved' = (wlWatched \/ wlRemoved)
    /\ UNCHANGED <<wlLock, wlHashes, wlDisk, wlApiPc, wlLoopPc, wlCurrent>>
    /\ LockFrame

\* _check_all_projects, lines 226-227: the snapshot of the watched
\* projects; _check_project begins for a project in it (lines 243-250).
CheckSnapshot ==
    /\ wlLoopPc = "idle"
    /\ wlLock = "none"
    /\ wlLoopPc' = IF wlWatched THEN "scan" ELSE "idle"
    /\ UNCHANGED <<wlLock, wlWatched, wlHashes, wlDisk, wlApiPc, wlCurrent,
                   wlRemoved>>
    /\ LockFrame

\* _check_project, lines 250-265: _scan_directory returns and the result is
\* compared with the file_hashes of the snapshot's entry.
CheckScanned ==
    /\ wlLoopPc = "scan"
    /\ wlCurrent' = wlDisk
    /\ wlLoopPc' = IF wlDisk # wlHashes THEN "update" ELSE "idle"
    /\ UNCHANGED <<wlLock, wlWatched, wlHashes, wlDisk, wlApiPc, wlRemoved>>
    /\ LockFrame

\* _check_project, lines 272-278: under the lock, the entry of a project
\* that is still watched gets the new hashes.
CheckUpdate ==
    /\ wlLoopPc = "update"
    /\ wlLock = "none"
    /\ wlHashes' = IF wlWatched THEN wlCurrent ELSE wlHashes
    /\ wlLoopPc' = CallbackAfterUpdate(wlWatched)
    /\ UNCHANGED <<wlLock, wlWatched, wlDisk, wlApiPc, wlCurrent, wlRemoved>>
    /\ LockFrame

\* _check_project, lines 280-285: the callback is invoked and returns.
CheckCallback ==
    /\ wlLoopPc = "callback"
    /\ wlLoopPc' = "idle"
    /\ UNCHANGED <<wlLock, wlWatched, wlHashes, wlDisk, wlApiPc, wlCurrent,
                   wlRemoved>>
    /\ LockFrame

NextLock ==
    \/ \E s \in DiskStates : TreeChange(s)
    \/ AddProjectLock
    \/ AddProjectScanned
    \/ RemoveProject
    \/ CheckSnapshot
    \/ CheckScanned
    \/ CheckUpdate
    \/ CheckCallback

-----------------------------------------------------------------------------
(***************************************************************************)
(* The project registry (src/db/operations.py) and its LRU cache           *)
(* (src/utils/cache.py) for one project, from the state create_project     *)
(* leaves; the calls are made one after the other.                         *)
(***************************************************************************)

RegistryFrame ==
    UNCHANGED <<agentVars, writerVars, storeVars, lifeVars, runVars, searchVars,
               chunkVars, watchVars, cancelVars, smartVars, poolVars, retryVars,
               lockVars, breakerVars, rateVars>>

ProjectStatuses == {"created", "indexing", "ready", "error"}

\* project_cache.get(key) returned None.
NotCached == "none"

\* lookup through the cache: the cached record, else the row, which is
\* then cached (get_project lines 519-535, get_project_by_id lines 548-563).
CachedLookup(cached, row) == IF cached # NotCached THEN cached ELSE row

InitRegistry ==
    /\ rgStatus = "created"
    /\ rgCacheId = "created"
    /\ rgCachePath = "created"
    /\ rgCall = "create"
    /\ rgResult = "created"

\* update_project_status(id, s): the row is updated and the id key of the
\* cache is invalidated (line 620).
UpdateProjectStatus(s) ==
    /\ rgStatus' = s
    /\ rgCacheId' = NotCached
    /\ rgCall' = "update"
    /\ UNCHANGED <<rgCachePath, rgResult>>
    /\ RegistryFrame

\* get_project_by_id(id).
GetProjectById ==
    /\ rgResult' = CachedLookup(rgCacheId, rgStatus)
    /\ rgCacheId' = CachedLookup(rgCacheId, rgStatus)
    /\ rgCall' = "by_id"
    /\ UNCHANGED <<rgStatus, rgCachePath>>
    /\ RegistryFrame

\* get_project(path).
GetProject ==
    /\ rgResult' = CachedLookup(rgCachePath, rgStatus)
    /\ rgCachePath' = CachedLookup(rgCachePath, rgStatus)
    /\ rgCall' = "by_path"
    /\ UNCHANGED <<rgStatus, rgCacheId>>
    /\ RegistryFrame

\* LRUCache: an entry leaves the cache, its ttl over (get, lines 41-48) or
\* evicted as the oldest of more than max_size entries (set, lines 66-70).
CacheDrops(byPath) ==
    /\ IF byPath
       THEN /\ rgCachePath # NotCached
            /\ rgCachePath' = NotCached
            /\ UNCHANGED rgCacheId
       ELSE /\ rgCacheId # NotCached
            /\ rgCacheId' = NotCached
            /\ UNCHANGED rgCachePath
    /\ UNCHANGED <<rgStatus, rgCall, rgResult>>
    /\ RegistryFrame

NextRegistry ==
    \/ \E s \in ProjectStatuses : UpdateProjectStatus(s)
    \/ GetProjectById
    \/ GetProject
    \/ \E byPath \in BOOLEAN : CacheDrops(byPath)

-----------------------------------------------------------------------------
(***************************************************************************)
(* The circuit breaker and the retry loop of src/ai/openai.py.  One caller *)
(* after the other goes through _retry_with_backoff; time passes between   *)
(* calls and in the backoff sleeps.  The rate limiter, which has a model   *)
(* of its own below, admits every attempt here.                            *)
(***************************************************************************)

BreakerFrame ==
    UNCHANGED <<agentVars, writerVars, storeVars, lifeVars, runVars, searchVars,
               chunkVars, watchVars, cancelVars, smartVars, poolVars, retryVars,
               lockVars, registryVars, rateVars>>

CIRCUIT_BREAKER_THRESHOLD == 5
CIRCUIT_BREAKER_TIMEOUT == 60
max_retries == 3
base_delay == 1

\* Calls of _retry_with_backoff made, and the last second of the clock.
MaxCalls == 4
MaxClock == 200

\* The time that can pass between two calls.
Pauses == {30, 60}

\* What the wrapped function does: it returns, or raises an error whose
\* text holds a transient keyword, or one whose text holds none.
FuncErrors == {"transient", "permanent"}

\* _check_circuit_breaker raises (line 57).
CircuitOpen_Never(openUntil, now) == FALSE
CircuitOpen(openUntil, now) == openUntil > now

\* _record_failure (lines 69-71): open_until after the failure counted.
OpenUntilAfterFailure(failuresNow, openUntil, now) ==
    IF failuresNow >= CIRCUIT_BREAKER_THRESHOLD
    THEN now + CIRCUIT_BREAKER_TIMEOUT
    ELSE openUntil

\* is_transient (lines 93-94).  The text of the RuntimeError of
\* _check_circuit_breaker holds none of the keywords.
IsTransient(err) == err = "transient"

\* The except clause re-raises (lines 100-105).
ReRaises(attempt, err) ==
    \/ attempt = max_retries - 1
    \/ ~IsTransient(err) /\ attempt > 0

\* delay = base_delay * (2 ** attempt) (line 107).
RetryDelay(attempt) == base_delay * Pow2(attempt)

InitBreaker ==
    /\ cbNow = 1
    /\ cbFailures = 0
    /\ cbOpenUntil = 0
    /\ cbPc = "idle"
    /\ cbAttempt = 0
    /\ cbInvocations = 0
    /\ cbLastErr = "none"
    /\ cbOutcome = "none"
    /\ cbBeganOpen = FALSE
    /\ cbStreak = 0
    /\ cbCalls = 0

\* _retry_with_backoff(func) is called.
BeginCall ==
    /\ cbPc = "idle"
    /\ cbCalls < MaxCalls
    /\ cbCalls' = cbCalls + 1
    /\ cbPc' = "attempt"
    /\ cbAttempt' = 0
    /\ cbInvocations' = 0
    /\ cbLastErr' = "none"
    /\ cbOutcome' = "none"
    /\ cbBeganOpen' = (cbOpenUntil > cbNow)
    /\ UNCHANGED <<cbNow, cbFailures, cbOpenUntil, cbStreak>>
    /\ BreakerFrame

\* The except clause (lines 92-108) for the error err.
ExceptClause(err) ==
    /\ cbLastErr' = err
    /\ cbFailures' = cbFailures + 1
    /\ cbOpenUntil' = OpenUntilAfterFailure(cbFailures + 1, cbOpenUntil, cbNow)
    /\ IF ReRaises(cbAttempt, err)
       THEN cbPc' = "idle" /\ cbOutcome' = "raised"
       ELSE cbPc' = "sleep" /\ UNCHANGED cbOutcome
    /\ UNCHANGED <<cbNow, cbAttempt, cbBeganOpen, cbCalls>>

\* An attempt at which _check_circuit_breaker raises: the RuntimeError is
\* raised inside the try block and caught by the except clause.
AttemptRejected ==
    /\ cbPc = "attempt"
    /\ CircuitOpen(cbOpenUntil, cbNow)
    /\ ExceptClause("rejected")
    /\ UNCHANGED <<cbInvocations, cbStreak>>
    /\ BreakerFrame

\* An attempt at which func returns: _record_success (lines 60-64).
AttemptSucceeds ==
    /\ cbPc = "attempt"
    /\ ~CircuitOpen(cbOpenUntil, cbNow)
    /\ cbInvocations' = cbInvocations + 1
    /\ cbFailures' = 0
    /\ cbOpenUntil' = 0
    /\ cbStreak' = 0
    /\ cbPc' = "idle"
    /\ cbOutcome' = "returned"
    /\ UNCHANGED <<cbNow, cbAttempt, cbLastErr, cbBeganOpen, cbCalls>>
    /\ BreakerFrame

\* An attempt at which func raises.
AttemptFails(err) ==
    /\ cbPc = "attempt"
    /\ ~CircuitOpen(cbOpenUntil, cbNow)
    /\ cbInvocations' = cbInvocations + 1
    /\ cbStreak' = cbStreak + 1
    /\ ExceptClause(err)
    /\ BreakerFrame

\* time.sleep(delay) returns and the loop goes to its next attempt.
BackoffSlept ==
    /\ cbPc = "sleep"
    /\ cbNow' = cbNow + RetryDelay(cbAttempt)
    /\ cbAttempt' = cbAttempt + 1
    /\ cbPc' = "attempt"
    /\ UNCHANGED <<cbFailures, cbOpenUntil, cbInvocations, cbLastErr, cbOutcome,
                   cbBeganOpen, cbStreak, cbCalls>>
    /\ BreakerFrame

\* Time passes between two calls.
Pause(seconds) ==
    /\ cbPc = "idle"
    /\ cbNow + seconds <= MaxClock
    /\ cbNow' = cbNow + seconds
    /\ UNCHANGED <<cbFailures, cbOpenUntil, cbPc, cbAttempt, cbInvocations,
                   cbLastErr, cbOutcome, cbBeganOpen, cbStreak, cbCalls>>
    /\ BreakerFrame

NextBreaker ==
    \/ BeginCall
    \/ AttemptRejected
    \/ AttemptSucceeds
    \/ \E err \in FuncErrors : AttemptFails(err)
    \/ BackoffSlept
    \/ \E seconds \in Pauses : Pause(seconds)

-----------------------------------------------------------------------------
(***************************************************************************)
(* The rate limiter of src/ai/openai.py: _check_rate_limit, called by the  *)
(* embedding threads, under _rate_limit_lock (a threading.Lock).           *)
(***************************************************************************)

RateFrame ==
    UNCHANGED <<agentVars, writerVars, storeVars, lifeVars, runVars, searchVars,
               chunkVars, watchVars, cancelVars, smartVars, poolVars, retryVars,
               lockVars, registryVars, breakerVars>>

\* Calls admitted per window and the length of the window (100 calls and
\* 60 seconds in the source), scaled down.
RATE_LIMIT_CALLS == 2
RATE_LIMIT_WINDOW == 3

NumCallers == 2
MaxRateCalls == 4
MaxRateClock == 6

Callers == 1..NumCallers
NoCaller == 0

\* threading.Lock.acquire by caller c: the lock is free.  The lock is not
\* reentrant: it is not free for the thread that holds it either.
LockFree(holder, c) == holder = NoCaller

\* lines 41-42: timestamps older than the window are removed from the front.
RECURSIVE DropOld(_, _)
DropOld(times, now) ==
    IF times # <<>> /\ times[1] < now - RATE_LIMIT_WINDOW
    THEN DropOld(Tail(times), now)
    ELSE times

\* lines 44-47: the limit is reached and the oldest call is still in the window.
MustWait(times, now) ==
    /\ Len(times) >= RATE_LIMIT_CALLS
    /\ times[1] + RATE_LIMIT_WINDOW - now > 0

InitRate ==
    /\ rlClock = 0
    /\ rlTimes = <<>>
    /\ rlLock = NoCaller
    /\ rlPc = [c \in Callers |-> "idle"]
    /\ rlCalls = 0

\* caller c calls _check_rate_limit().
CheckRateLimit(c) ==
    /\ rlPc[c] = "idle"
    /\ rlCalls < MaxRateCalls
    /\ rlCalls' = rlCalls + 1
    /\ rlPc' = [rlPc EXCEPT ![c] = "acquire"]
    /\ UNCHANGED <<rlClock, rlTimes, rlLock>>
    /\ RateFrame

\* 'with _rate_limit_lock:' of the call, or of the call made again at line 50
\* from inside the with block.
RateAcquire(c) ==
    /\ rlPc[c] \in {"acquire", "reacquire"}
    /\ LockFree(rlLock, c)
    /\ rlLock' = c
    /\ rlPc' = [rlPc EXCEPT ![c] = "locked"]
    /\ UNCHANGED <<rlClock, rlTimes, rlCalls>>
    /\ RateFrame

\* lines 39-52 under the lock: old timestamps removed; then the caller
\* sleeps, still holding the lock, or records the call and leaves.
RateDecide(c) ==
    /\ rlPc[c] = "locked"
    /\ IF MustWait(DropOld(rlTimes, rlClock), rlClock)
       THEN /\ rlTimes' = DropOld(rlTimes, rlClock)
            /\ rlPc' = [rlPc EXCEPT ![c] = "sleep"]
            /\ UNCHANGED rlLock
       ELSE /\ rlTimes' = Append(DropOld(rlTimes, rlClock), rlClock)
            /\ rlPc' = [rlPc EXCEPT ![c] = "idle"]
            /\ rlLock' = NoCaller
    /\ UNCHANGED <<rlClock, rlCalls>>
    /\ RateFrame

\* time.sleep(sleep_time) returns (line 48) and _check_rate_limit() is
\* called again (line 50), inside the with block.
RateSlept(c) ==
    /\ rlPc[c] = "sleep"
    /\ rlClock' = rlTimes[1] + RATE_LIMIT_WINDOW
    /\ rlPc' = [rlPc EXCEPT ![c] = "reacquire"]
    /\ UNCHANGED <<rlTimes, rlLock, rlCalls>>
    /\ RateFrame

\* A second passes while no caller sleeps.
RateTick ==
    /\ \A c \in Callers : rlPc[c] # "sleep"
    /\ rlClock < MaxRateClock
    /\ rlClock' = rlClock + 1
    /\ UNCHANGED <<rlTimes, rlLock, rlPc, rlCalls>>
    /\ RateFrame

NextRate ==
    \/ \E c \in Callers : CheckRateLimit(c)
    \/ \E c \in Callers : RateAcquire(c)
    \/ \E c \in Callers : RateDecide(c)
    \/ \E c \in Callers : RateSlept(c)
    \/ RateTick

-----------------------------------------------------------------------------
(***************************************************************************)
(*                            Specifications                               *)
(***************************************************************************)

Init == InitAgent /\ InitWriter /\ InitStore /\ InitLife /\ InitRun /\ InitSearch
        /\ InitChunk
        /\ InitWatch
        /\ InitCancel
        /\ InitSmart
        /\ InitPool
        /\ InitRetry
        /\ InitLock
        /\ InitRegistry
        /\ InitBreaker
        /\ InitRate

SpecAgent == Init /\ [][NextAgent]_vars

SpecWriter == Init /\ [][NextWriter]_vars

\* The worker threads are scheduled: a worker that can step does step.
SpecWriterFair ==
    Init /\ [][NextWriter]_vars /\ \A w \in Workers : WF_vars(Worker(w))

\* The worker threads and the callers blocked in event.wait are scheduled.
SpecWriterLive ==
    /\ Init /\ [][NextWriter]_vars
    /\ \A w \in Workers : WF_vars(Worker(w))
    /\ \A t \in TaskIds : WF_vars(t <= Len(tasks) /\ CallerWake(t))

SpecStore == Init /\ [][NextStore]_vars

SpecIndex == Init /\ [][NextIndex]_vars

SpecLife == Init /\ [][NextLife]_vars

SpecRun == Init /\ [][NextRun]_vars

SpecChunk == Init /\ [][NextChunk]_vars

SpecRate == Init /\ [][NextRate]_vars

\* Every caller inside _check_rate_limit is scheduled.
SpecRateFair ==
    /\ SpecRate
    /\ \A c \in Callers : WF_vars(RateAcquire(c))
    /\ \A c \in Callers : WF_vars(RateDecide(c))
    /\ \A c \in Callers : WF_vars(RateSlept(c))


SpecBreaker == Init /\ [][NextBreaker]_vars


SpecRegistry == Init /\ [][NextRegistry]_vars


SpecLock == Init /\ [][NextLock]_vars


SpecRetry == Init /\ [][NextRetry]_vars


SpecPool == Init /\ [][NextPool]_vars

SpecSmart == Init /\ [][NextSmart]_vars


SpecCancel == Init /\ [][NextCancel]_vars


SpecWatch == Init /\ [][NextWatch]_vars

\* The steps of the collector and the beginning of a submitted task.
RunControl ==
    \/ \E p \in Paths : RunTask(p)
    \/ \E p \in Paths : RunCollect(p)
    \/ \E ok \in BOOLEAN : RunFinish(ok)

\* The run under a pool that schedules every task and tasks that all go on
\* to their end.
SpecRunFair ==
    Init /\ [][NextRun]_vars /\ WF_vars(RunControl \/ \E p \in Paths : TaskStep(p))

\* The run under a pool that schedules every task, with tasks that may
\* hang (a blocking read, a slow provider).
SpecRunHang ==
    Init /\ [][NextRun]_vars /\ WF_vars(RunControl)

-----------------------------------------------------------------------------
(***************************************************************************)
(*                        Claims on the DBWriter                           *)
(***************************************************************************)

Created(t) == t <= Len(tasks)

Executed(t) == Created(t) /\ tasks[t].event

InQueue(t) == \E i \in 1..Len(wq) : wq[i] = t

AllWorkersExited == \A w \in Workers : wpc[w] = "exited"

\* C5: when the statement of a task fails in a worker, the exception is
\* stored on the task and its event is set, the worker goes on with its loop
\* and the queue keeps every task behind the failing one; the caller blocked
\* in enqueue_and_wait on that task raises the exception; and every queued
\* task is executed in the end unless stop() has been called.
C5_FailureHandedBack ==
    /\ [][\A w \in Workers :
            (wpc[w] = "exec" /\ wpc'[w] # "exec" /\ tasks'[wtask[w]].exception)
              => /\ tasks'[wtask[w]].event
                 /\ wpc'[w] = "loop"
                 /\ wq' = wq]_vars
    /\ [][\A t \in TaskIds :
            (Created(t) /\ caller[t] = "waiting" /\ caller'[t] # "waiting"
               /\ tasks[t].event /\ tasks[t].exception)
              => caller'[t] = "raised"]_vars
    /\ \A t \in TaskIds : InQueue(t) ~> (Executed(t) \/ stopFlag)

\* The first task failed and its caller raised; the task queued behind it
\* was executed by the same, still running, writer and returned a row id.
C5_Witness ==
    /\ Len(tasks) >= 2
    /\ tasks[1].exception /\ caller[1] = "raised"
    /\ tasks[2].event /\ tasks[2].rowid /\ caller[2] = "returned"
    /\ ~stopFlag
    /\ \A w \in Workers : wpc[w] # "exited"

\* C6 as stated (its first half): stop() drains in-flight work, that is,
\* once the workers have exited every task that was enqueued before stop()
\* was called has been executed and has its completion event set.
C6_StopDrains ==
    AllWorkersExited
      => \A t \in 1..Len(tasks) : tasks[t].early => tasks[t].event

-----------------------------------------------------------------------------
(***************************************************************************)
(*                      Claims on the IndexSyncAgent                       *)
(***************************************************************************)

\* A step of _reconcile_project: the head of the listing is consumed.
ReconcileStep == inPass /\ pending # <<>> /\ pending' = Tail(pending)

\* The project the step reconciles and the status the listing recorded.
StepId == Head(pending).id
StepStatus == Head(pending).status

FilesNoEmbeddings(st) ==
    st.db = "ok" /\ st.file_count > 0 /\ st.embedding_count = 0

\* C7: reconciliation non-flap. A reconcile step on a project whose root path
\* and database exist and whose stats are file_count > 0, embedding_count = 0
\* issues no update_project_status call and leaves the registry alone,
\* whatever the recorded status is; so any number of passes issue none.
C7_NonFlap ==
    [][(ReconcileStep /\ pathExists[StepId] /\ FilesNoEmbeddings(storage[StepId]))
         => (updates' = updates /\ projStatus' = projStatus)]_vars

\* A pass over an "indexing" project with files and no embeddings has run
\* to its end, has consulted the stats and has written nothing.
C7_Witness ==
    /\ inPass /\ pending = <<>>
    /\ pathExists["p1"] /\ FilesNoEmbeddings(storage["p1"])
    /\ projStatus["p1"] = "indexing"
    /\ statsCalls = <<"p1">>
    /\ updates = <<>>

\* The lifecycle machine of the specification: created -> indexing -> ready,
\* created -> indexing -> error, and error from any status.
MachineTransitions ==
    {<<"created", "indexing">>, <<"indexing", "ready">>, <<"indexing", "error">>}
    \cup {<<s, "error">> : s \in Statuses}

\* C8 as stated: every status change the agent writes is a transition of
\* the lifecycle machine.
C8_MachineOnly ==
    [][(ReconcileStep /\ projStatus'[StepId] # projStatus[StepId])
         => <<projStatus[StepId], projStatus'[StepId]>> \in MachineTransitions]_vars

\* C8 (amended): every status the agent writes is "created", "ready" or
\* "error", never "indexing", and differs from the status it read; "error"
\* is written exactly for a missing root path, "created" only for a missing
\* database or file_count = 0, "ready" only for embedding_count > 0. The
\* agent does move a project from any status to "created" or "ready".
C8_WrittenStatuses ==
    [][(ReconcileStep /\ updates' # updates)
         => LET call == updates'[Len(updates')]
                st == storage[StepId]
            IN  /\ updates' = Append(updates, call)
                /\ call.project_id = StepId
                /\ call.status \in {"created", "ready", "error"}
                /\ call.status # StepStatus
                /\ projStatus'[StepId] = call.status
                /\ (call.status = "error") <=> ~pathExists[StepId]
                /\ (call.status = "created") =>
                       (st.db = "nodb" \/ (st.db = "ok" /\ st.file_count = 0))
                /\ (call.status = "ready") =>
                       (st.db = "ok" /\ st.embedding_count > 0)]_vars

\* The agent has just moved a project whose database reports no files from
\* "indexing" (as listed) back to "created".
C8_Witness ==
    /\ inPass /\ pending = <<>>
    /\ Len(updates) = 1 /\ updates[1].status = "created"
    /\ projStatus["p1"] = "created"
    /\ storage["p1"].db = "ok" /\ storage["p1"].file_count = 0
    /\ pathExists["p1"]

\* The status derived from storage, as the claim words it.
C9_Derived(st) ==
    IF st.db = "nodb" \/ (st.db = "ok" /\ st.file_count = 0) THEN "created"
    ELSE IF st.db = "ok" /\ st.embedding_count > 0 THEN "ready"
    ELSE None

\* C9: for a project whose root path exists, a reconcile step writes one
\* status update (the derived status, with last_indexed_at exactly when it
\* is "ready") if the derived status is determinate and differs from the
\* recorded one, and writes nothing otherwise; in particular nothing once
\* the registry holds the derived status.
C9_WriteIffDiffers ==
    [][(ReconcileStep /\ pathExists[StepId])
         => LET d == C9_Derived(storage[StepId])
            IN  IF d # None /\ d # StepStatus
                THEN /\ updates' = Append(updates,
                            UpdateCall(StepId, d, d = "ready"))
                     /\ projStatus'[StepId] = d
                ELSE /\ updates' = updates
                     /\ projStatus' = projStatus]_vars

\* A pass has written "ready" with last_indexed_at for an indexed project.
C9_Witness ==
    /\ inPass /\ pending = <<>>
    /\ pathExists["p1"]
    /\ storage["p1"].db = "ok" /\ storage["p1"].embedding_count > 0
    /\ updates = <<UpdateCall("p1", "ready", TRUE)>>
    /\ projStatus["p1"] = "ready"

\* C10: a reconcile step on a project whose root path does not exist writes
\* exactly one update, to "error", when the recorded status is not "error",
\* writes nothing when it is, and never calls get_project_stats.
C10_MissingPath ==
    [][(ReconcileStep /\ ~pathExists[StepId])
         => /\ statsCalls' = statsCalls
            /\ IF StepStatus # "error"
               THEN /\ updates' = Append(updates, UpdateCall(StepId, "error", FALSE))
                    /\ projStatus'[StepId] = "error"
               ELSE /\ updates' = updates
                    /\ projStatus' = projStatus]_vars

\* A pass over a project with a readable database and a missing root path
\* has written "error" once and has not consulted the stats.
C10_Witness ==
    /\ inPass /\ pending = <<>>
    /\ ~pathExists["p1"]
    /\ storage["p1"].db = "ok"
    /\ updates = <<UpdateCall("p1", "error", FALSE)>>
    /\ statsCalls = <<>>

-----------------------------------------------------------------------------
(***************************************************************************)
(*                  Claims on the project database                         *)
(***************************************************************************)

\* C1 as stated: whenever a dimension is recorded in vector_meta, every chunk
\* row with an embedding holds a vector of that length, also when several
\* threads call insert_chunk_vector_with_retry at once.
C1_VectorsMatchDimension ==
    dimension # NoDim => \A r \in ChunkRows : r.dim = dimension

\* C2 as stated: the recorded dimension is a write-once latch: a step that
\* changes a recorded dimension is a step of clear_project_data.
C2_DimensionLatch ==
    [][(dimension # NoDim /\ dimension' # dimension) => ClearProjectData]_vars

\* The step of thread t that reads the recorded dimension.
ReadsDimension(t) == tpc[t] = "read_dim" /\ tpc'[t] # "read_dim"

\* C3: a call of insert_chunk_vector_with_retry that finds a dimension d
\* recorded and carries a vector of another length ends there with the
\* dimension-mismatch error: no chunk row is added and the recorded
\* dimension stays d.
C3_MismatchRejected ==
    [][\A t \in Threads :
         (ReadsDimension(t) /\ dimension # NoDim /\ tloc[t].vec # dimension)
           => /\ tpc'[t] = "idle"
              /\ tloc'[t].result = "mismatch"
              /\ chunks' = chunks
              /\ dimension' = dimension]_vars

\* A call has been refused for its length while the store holds a row of the
\* recorded dimension.
C3_Witness ==
    /\ dimension # NoDim
    /\ ChunkTotal > 0
    /\ \A r \in ChunkRows : r.dim = dimension
    /\ \E t \in Threads : tpc[t] = "idle" /\ tloc[t].result = "mismatch"

\* C4 as stated: after any sequence of indexing runs, no two chunk rows
\* share the same (file_id, chunk_index).
C4_UniqueChunkIndex ==
    \A r1, r2 \in ChunkRows :
        (r1.file_id = r2.file_id /\ r1.chunk_index = r2.chunk_index)
          => (r1 = r2 /\ chunks[r1] = 1)

-----------------------------------------------------------------------------
(***************************************************************************)
(*                  Claims on the agent's lifecycle                        *)
(***************************************************************************)

\* C11 as stated (its last part): once stop() has set the stop signal, a
\* loop thread that was alive then begins no further reconcile pass.
C11_StoppedLoopExits ==
    [][\A t \in LoopThreads : t \in signalled => passes'[t] = passes[t]]_vars

-----------------------------------------------------------------------------
(***************************************************************************)
(*                  Claims on the file tasks                               *)
(***************************************************************************)

\* The step in which thread t begins a file task in incremental mode on a
\* file it can index.
BeginsIncremental(t) ==
    /\ tpc[t] = "idle"
    /\ tloc'[t] # tloc[t]
    /\ tloc'[t].inc
    /\ Indexable(tloc'[t].path, disk[tloc'[t].path].content)

\* The files row of p records the mtime and the hash the file has now.
RowMatchesDisk(p) ==
    /\ files[p].id # 0
    /\ files[p].mtime = disk[p].mtime
    /\ files[p].hash = ComputeFileHash(disk[p].content)

\* C13: an incremental file task skips its file exactly when a files row
\* exists for the path whose stored hash and stored mtime both equal the
\* file's; a missing row, a different hash or a different mtime, each on its
\* own, makes it reprocess the file (it goes on to store_file).
C13_ChangeDetection ==
    [][\A t \in IndexThreads :
         BeginsIncremental(t)
           => IF RowMatchesDisk(tloc'[t].path)
              THEN tpc'[t] = "idle" /\ tloc'[t].result = "skipped"
              ELSE tpc'[t] = "store" /\ tloc'[t].result = "none"]_vars

\* An incremental task reprocesses a file of which only the mtime changed,
\* while the other file of the tree is stored and unchanged.
C13_Witness ==
    \E t \in IndexThreads :
        /\ tpc[t] = "store" /\ tloc[t].inc
        /\ LET p == tloc[t].path
           IN  /\ files[p].id # 0
               /\ files[p].hash = ComputeFileHash(tloc[t].content)
               /\ files[p].mtime # tloc[t].mtime
               /\ \A q \in Paths \ {p} : RowMatchesDisk(q)

\* The step in which the embedding of thread t's current chunk fails.
EmbeddingFails(t) ==
    /\ tpc[t] = "embed"
    /\ tloc'[t].result = "no_embedding"
    /\ tloc'[t] # tloc[t]

\* C14: when the embedding of a chunk fails the task goes on to the next
\* chunk of the file (or returns after the last one) and inserts nothing for
\* the failed chunk; a chunk row inserted by the task sets embedded; a task
\* that has persisted a chunk returns stored=True and embedded=True.
C14_SiblingChunks ==
    [][\A t \in IndexThreads :
         /\ EmbeddingFails(t)
              => /\ chunks' = chunks
                 /\ IF tloc[t].idx + 1 < ChunkCount(tloc[t].content)
                    THEN /\ tpc'[t] = "embed"
                         /\ tloc'[t].idx = tloc[t].idx + 1
                         /\ tloc'[t].embedded = tloc[t].embedded
                    ELSE /\ tpc'[t] = "idle"
                         /\ ReturnDict(tloc'[t]).stored
                         /\ ReturnDict(tloc'[t]).embedded = tloc[t].embedded
         /\ (tpc[t] = "insert" /\ ChunkTotal' > ChunkTotal) => tloc'[t].embedded
         /\ (tpc[t] # "idle" /\ tpc'[t] = "idle" /\ tloc[t].embedded)
              => ReturnDict(tloc'[t]).stored /\ ReturnDict(tloc'[t]).embedded]_vars

\* A task whose first chunk failed at the embedding has returned
\* stored=True, embedded=True with its second chunk in the table.
C14_Witness ==
    \E t \in IndexThreads :
        /\ tpc[t] = "idle"
        /\ ReturnDict(tloc[t]).stored /\ ReturnDict(tloc[t]).embedded
        /\ \E r \in ChunkRows : r.chunk_index = 1
        /\ \A r \in ChunkRows : r.chunk_index # 0

-----------------------------------------------------------------------------
(***************************************************************************)
(*                  Claims on the indexing run                             *)
(***************************************************************************)

\* A second run has returned; it and the run before it were incremental and
\* found the same tree.
SecondIncrementalRun ==
    /\ runPc = "idle"
    /\ runNo >= 2
    /\ runIncr /\ prevRun.inc
    /\ prevRun.sameTree

IndexableFiles == {p \in Paths : Indexable(p, runTree[p].content)}

C15_FailureIsolation ==
    /\ [](runPc = "idle" /\ runNo > 0 => collected = Paths /\ lastMeta # "none")
    /\ (runPc = "collecting") ~> (runPc = "idle")

\* A run has returned in which store_file failed for one file and the other
\* file was stored and embedded.
C15_Witness ==
    /\ runPc = "idle" /\ runNo > 0
    /\ lastMeta = "written"
    /\ Cardinality(failedStores) = 1
    /\ counts.file_count = 1 /\ counts.emb_count = 1

\* C16 as stated: a file task that goes on running does not hold the run:
\* the run abandons it after FILE_PROCESSING_TIMEOUT and returns.
C16_RunNotHeld ==
    (runPc = "collecting") ~> (runPc = "idle")

\* ---------------------------------------------------------------------
\* C19: search_vectors on a database in which no dimension is recorded
\* returns an empty list without raising, whatever inserts and searches
\* the process did before, searches of other databases included.
C19_NoDimensionEmpty ==
    [][(searches' # searches /\ dimension = NoDim)
          => lastSearch' \in {"no_dimension", "empty"}]_vars

\* ---------------------------------------------------------------------
\* C20: clear_project_data leaves no file row, no chunk row and no
\* recorded dimension; an insert_chunk_vector_with_retry that then reads
\* the dimension is not rejected whatever the length of its vector, and
\* records that length.
C20_ClearResetsLatch ==
    [][/\ ClearProjectData =>
            /\ ChunkRows' = {}
            /\ \A p \in Paths : files'[p] = NoFile
            /\ dimension' = NoDim
       /\ \A t \in Threads :
            /\ (ReadsDimension(t) /\ dimension = NoDim)
                  => tpc'[t] = "set_dim"
            /\ (tpc[t] = "set_dim" /\ tpc'[t] # "set_dim")
                  => dimension' = tloc[t].vec]_vars

\* One thread alone recorded a dimension, cleared the project data and
\* inserted a vector of another length, which is now the recorded one.
C20_Witness ==
    /\ clearedDim # NoDim
    /\ dimension # NoDim
    /\ dimension # clearedDim
    /\ tloc["t2"] = IdleLoc
    /\ tpc["t1"] = "idle"
    /\ tloc["t1"].result = "inserted"
    /\ \E row \in ChunkRows : row.dim = dimension

-----------------------------------------------------------------------------
(***************************************************************************)
(*                        Claims on get_chunk_text                         *)
(***************************************************************************)

\* The last call looked up a record that leads to the file of the project.
ReadProjectFile ==
    /\ gctResult # NotCalled
    /\ Physical(<<>>, JoinPath(ProjectPath, storedPath)) = ProjectFile

\* The text from chunk_index * (CHUNK_SIZE - CHUNK_OVERLAP), CHUNK_SIZE
\* characters long, clipped to the length of the content.
ClippedSubstring(content, chunk_index) ==
    LET from == MinOf(chunk_index * (ChunkSize - ChunkOverlap), Len(content))
        to == MinOf(from + ChunkSize, Len(content))
    IN  Slice(content, from, to)

\* C17 as stated: for a file record inside the project root and a chunk
\* index i >= 0, get_chunk_text returns the substring of the current
\* content from i * (CHUNK_SIZE - CHUNK_OVERLAP), CHUNK_SIZE characters
\* long and clipped to the file length, and that is element i of
\* chunk_text(content, CHUNK_SIZE, CHUNK_OVERLAP).
C17_RoundTrip ==
    ReadProjectFile =>
        LET pieces == chunk_text(fsContent, ChunkSize, ChunkOverlap)
        IN  /\ gctResult = Text(ClippedSubstring(fsContent, gctIndex))
            /\ gctIndex < Len(pieces)
            /\ gctResult = Text(pieces[gctIndex + 1])

\* C17, amended: the round trip holds for the indexes of the chunks that
\* chunk_text makes of the content; an empty file gives None and an index
\* past the last chunk gives the empty text.
C17_RoundTripInRange ==
    ReadProjectFile =>
        LET pieces == chunk_text(fsContent, ChunkSize, ChunkOverlap)
        IN  /\ gctIndex < Len(pieces) =>
                /\ gctResult = Text(ClippedSubstring(fsContent, gctIndex))
                /\ gctResult = Text(pieces[gctIndex + 1])
            /\ fsContent = <<>> => gctResult = NoText
            /\ (fsContent # <<>> /\ gctIndex >= Len(pieces)) => gctResult = Text(<<>>)

\* The second chunk of a file of two chunks was read back; it overlaps
\* the first and is clipped to the end of the file.
C17_Witness ==
    /\ ReadProjectFile
    /\ Len(fsContent) = MaxLen
    /\ gctIndex = 1
    /\ gctResult.kind = "str"
    /\ Len(gctResult.text) < ChunkSize
    /\ gctResult.text # <<>>

\* The stored path resolves to a place outside the project root.
ResolvesOutside ==
    ~IsPrefix(Physical(<<>>, ProjectPath),
              Physical(<<>>, JoinPath(ProjectPath, storedPath)))

\* C18: for a stored path whose resolution against the recorded project
\* root lies outside that root, through ".." components or symbolic
\* links, get_chunk_text returns None and reads no file; and no call
\* reads a file outside the root.
C18_PathTraversal ==
    /\ (gctResult # NotCalled /\ ResolvesOutside) =>
            (gctResult = NoText /\ gctRead = NoRead)
    /\ gctRead # NoRead => IsPrefix(Physical(<<>>, ProjectPath), gctRead)

\* get_chunk_text refused a path that goes through the symbolic link to
\* the file outside the project.
C18_Witness ==
    /\ gctResult = NoText
    /\ storedPath = [abs |-> FALSE, parts |-> <<"link", "a.py">>]
    /\ ResolvesOutside

-----------------------------------------------------------------------------
(***************************************************************************)
(*                        Claims on the FileWatcher                        *)
(***************************************************************************)

\* A check that scans the project, with a callback registered.
ScanningTick == ticks' # ticks /\ fwDirExists /\ callbackSet

Added == {f \in WatchedFiles : file_hashes[f] = NoSig /\ fwDisk[f] # NoSig}
Removed == {f \in WatchedFiles : file_hashes[f] # NoSig /\ fwDisk[f] = NoSig}
Modified ==
    {f \in WatchedFiles : /\ file_hashes[f] # NoSig
                          /\ fwDisk[f] # NoSig
                          /\ file_hashes[f] # fwDisk[f]}

\* What C21 says of one check.
ReportsChanges ==
    /\ file_hashes' = fwDisk
    /\ IF Added \cup Removed \cup Modified = {}
       THEN callbackCalls' = callbackCalls
       ELSE /\ callbackCalls' = callbackCalls + 1
            /\ changed_files' = Added \cup Removed \cup Modified

\* C21 as stated: on each check of the watched project the callback
\* receives exactly the paths added, removed or of changed signature
\* between the stored map and the fresh scan, and the stored map becomes
\* the fresh scan; a check that finds no change makes no callback.
C21_ChangesReported == [][ticks' # ticks => ReportsChanges]_vars

\* C21, amended: the same of each check made while the project directory
\* exists and a callback is registered.
C21_ChangesReportedWhenScanned == [][ScanningTick => ReportsChanges]_vars

\* A check reported a deleted file and a new one in one call.
C21_Witness ==
    /\ callbackCalls > 0
    /\ changed_files = {"a.py", "b.py"}
    /\ file_hashes["a.py"] = NoSig
    /\ file_hashes["b.py"] # NoSig

-----------------------------------------------------------------------------
(***************************************************************************)
(*                  Claims on the cancellation of an index run             *)
(***************************************************************************)

\* C22: a run that was processing files when the delete request arrived
\* extracts and stores no dependencies and never sets the status 'ready';
\* a run that was extracting dependencies when it arrived stores none of
\* what it was extracting.
C22_Cancelled ==
    \A r \in Requests :
        /\ deleteAt[r] = "files" => stage[r] \in {"files", "cancelled", "error"}
        /\ deleteAt[r] = "extract" => stage[r] \in {"extract", "cancelled", "error"}
        /\ deleteAt[r] = "full_extract"
              => stage[r] \in {"full_extract", "cancelled", "error"}

-----------------------------------------------------------------------------
(***************************************************************************)
(*              Claims on who writes to the project database               *)
(***************************************************************************)

\* A step that changes a table of the project database.
MutatesDatabase ==
    files' # files \/ chunks' # chunks \/ dimension' # dimension

\* A step in which a DBWriter worker executes the statement handed to it.
ExecutedByWorker == \E t \in Threads, w \in StoreWorkers : ProcStoreFile(t, w)

\* C23: every statement that changes the project database during
\* indexing (file upsert, chunk insert, dimension write, clear of the
\* project data) is executed by a DBWriter worker, never on a connection
\* of the calling thread.
C23_ThroughWriter == [][MutatesDatabase => ExecutedByWorker]_vars

-----------------------------------------------------------------------------
(***************************************************************************)
(*              Claims on the chunks the pipeline embeds                   *)
(***************************************************************************)

\* C24: for every chunk the pipeline embeds and stores with index i for a
\* file, the text sent to the embedding provider equals what
\* get_chunk_text returns for (file, i) while the file is unchanged, with
\* smart chunking enabled or disabled.
C24_EmbeddedIsReadBack == scPc = "read" => scBack = scSent


\* C25: every store_file call that returns hands back the id of the files
\* row of its own path, whether the row was inserted or updated in place
\* and whichever writer worker executed it.
C25_StoreFileReturnsOwnRow ==
    [][\A t \in Threads :
          (tpc[t] = "store" /\ tpc'[t] = "embed")
              => tloc'[t].fid = files'[tloc[t].path].id]_vars

-----------------------------------------------------------------------------
(***************************************************************************)
(*          Claims on the agent and an index run in progress               *)
(***************************************************************************)

\* C26: while the index run of a project is in progress (api_index_project
\* has made the database and recorded 'indexing', and the run has not yet
\* written its final status), no reconcile step of the agent moves the
\* recorded status to 'ready' or 'created'.
C26_IndexingKept ==
    [][(/\ ReconcileStep
        /\ StepStatus = "indexing"
        /\ projStatus[StepId] = "indexing"
        /\ storage[StepId].db = "ok")
          => projStatus'[StepId] \notin {"ready", "created"}]_vars


-----------------------------------------------------------------------------
\* Every pool thread runs a file task that is waiting for the future of an
\* embedding task still in the queue: no thread is left to start one.
AllThreadsWait ==
    \A t \in PoolThreads :
        /\ executorThread[t].kind = "file"
        /\ filePc[executorThread[t].f] = "waiting"
        /\ embState[<<executorThread[t].f, fileIdx[executorThread[t].f]>>] = "queued"

\* C27: for any number of files of a run, an embedding task submitted by a
\* file task is started while the file task waits for it: the file tasks
\* never hold every thread of the shared executor while the embedding tasks
\* they wait for sit in its queue, where only a timeout of a waiting file
\* task can free a thread.
C27_NoStarvation == ~AllThreadsWait

\* The provider calls of the run in flight.
InFlight == {e \in EmbTasks : embState[e] = "calling"}

\* C30: at every moment of the run at most EMBEDDING_CONCURRENCY provider
\* calls are in flight, also after a file task has timed out on a call that
\* is still running.
C30_ConcurrencyBound == Cardinality(InFlight) <= EMBEDDING_CONCURRENCY

\* A file task has timed out on a call that is still in flight, and another
\* embedding task of the run waits in a pool thread for the permit.
C30_Witness ==
    /\ \E e \in InFlight : embResult[e] = "timeout_running"
    /\ \E e \in EmbTasks : embState[e] = "acquiring"
    /\ Cardinality(InFlight) = EMBEDDING_CONCURRENCY


-----------------------------------------------------------------------------
\* The files row of p was stored from the file as it is now, the last file
\* task on p ended with its embedding failed, no file task is at work, and
\* the chunks table holds no row: no chunk of p was embedded by the run
\* that stored it.
StoredNotEmbedded(p) ==
    /\ RowMatchesDisk(p)
    /\ \A t \in IndexThreads : tpc[t] = "idle"
    /\ \E t \in IndexThreads :
          /\ tloc[t].path = p
          /\ tloc[t].result = "no_embedding"
          /\ ~tloc[t].embedded
    /\ chunks = NoChunks

\* C28: a file whose record was stored and none of whose chunks was
\* embedded is processed again by the next incremental run on the
\* unchanged tree: the incremental file task does not skip it.
C28_Reprocessed ==
    [][\A t \in IndexThreads :
         (BeginsIncremental(t) /\ StoredNotEmbedded(tloc'[t].path))
           => tloc'[t].result # "skipped"]_vars


-----------------------------------------------------------------------------
\* The workers that hold task t between get and event.set, and the number
\* of times t stands in the queue.
Holders(t) == {w \in Workers : wpc[w] = "exec" /\ wtask[w] = t}
QueuedCopies(t) == Cardinality({i \in 1..Len(wq) : wq[i] = t})

\* Task t is at exactly one place: once in the queue, or in the hands of
\* one worker, or completed.
AtOnePlace(t) ==
    QueuedCopies(t) + Cardinality(Holders(t)) + (IF tasks[t].event THEN 1 ELSE 0) = 1

-----------------------------------------------------------------------------
\* An attempt of the INSERT is made in this step.
AttemptStep == riPc = "try" /\ riPc' # "try"

\* C31: the chunk-vector insert is retried only after 'database is locked',
\* at most DB_LOCK_RETRY_COUNT times, with delays that double from
\* DB_LOCK_RETRY_BASE_DELAY; after the last retry the error is raised; any
\* other error is raised after the attempt that met it; and a successful
\* attempt inserts exactly one chunk row.
C31_RetryPolicy ==
    /\ [](/\ riRetries <= DB_LOCK_RETRY_COUNT
          /\ Len(riDelays) = riRetries
          /\ \A n \in 1..Len(riDelays) :
                riDelays[n] = (IF n = 1 THEN DB_LOCK_RETRY_BASE_DELAY
                               ELSE 2 * riDelays[n - 1]))
    /\ [][AttemptStep =>
            /\ riPc' = "sleep" <=> (riLast' = "locked"
                                      /\ riRetries < DB_LOCK_RETRY_COUNT)
            /\ riPc' = "raised" <=> (\/ riLast' \in {"operational", "other"}
                                     \/ riLast' = "locked"
                                          /\ riRetries = DB_LOCK_RETRY_COUNT)
            /\ riRows' = riRows + (IF riLast' = "ok" THEN 1 ELSE 0)]_vars
    /\ [][~AttemptStep => riRows' = riRows]_vars

\* After a call that inserted its row, a call met 'database is locked' on
\* its first attempt and on each of its six retries, and raised.
C31_Witness ==
    /\ riRows = 1
    /\ riPc = "raised"
    /\ riLast = "locked"
    /\ riRetries = DB_LOCK_RETRY_COUNT
    /\ riDelays = <<5, 10, 20, 40, 80, 160>>


-----------------------------------------------------------------------------
\* The thread is inside _scan_directory, or inside the change callback.
ScansDirectory(th) ==
    \/ th = "api" /\ wlApiPc = "add_scan"
    \/ th = "loop" /\ wlLoopPc = "scan"
RunsCallback(th) == th = "loop" /\ wlLoopPc = "callback"

\* C32: no thread holds the FileWatcher lock while it scans a directory or
\* runs the change callback.
C32_NoIoUnderLock ==
    \A th \in {"api", "loop"} :
        wlLock = th => ~ScansDirectory(th) /\ ~RunsCallback(th)

\* C33: once remove_project(p) has returned (and p has not been added
\* again) the watcher does not invoke the change callback for p and does
\* not re-create or update the watch state of p, also when a check that
\* took its snapshot before the removal is still in progress.
C33_SilentAfterRemove ==
    [][wlRemoved => /\ ~CheckCallback
                    /\ (CheckUpdate \/ CheckScanned \/ CheckSnapshot)
                          => (wlWatched' = wlWatched /\ wlHashes' = wlHashes)]_vars


-----------------------------------------------------------------------------
\* The loop threads that are inside a reconcile pass.
InPass == {t \in LoopThreads : loopPc[t] = "pass"}

\* C34: across any sequence of start() and stop() calls on one agent,
\* including a stop() whose bounded join times out followed by a new
\* start(), at most one loop thread of the agent is executing passes.
C34_OneLoopThread == Cardinality(InPass) <= 1


-----------------------------------------------------------------------------
\* C35: an index run treats itself as cancelled only if a delete request
\* for its project arrived while it worked; the completion of an
\* overlapping index run of the same project does not cancel it.
C35_CancelledOnlyByDelete ==
    \A r \in Requests : stage[r] = "cancelled" => deleteAt[r] # "none"


-----------------------------------------------------------------------------
\* C36: after update_project_status(id, s) has returned, get_project_by_id
\* and get_project both report status s (the status of the row), whatever
\* lookups filled the cache before the update.
C36_CacheCoherent ==
    rgCall \in {"by_id", "by_path"} => rgResult = rgStatus


-----------------------------------------------------------------------------
\* C37: the failed invocation that makes five in a row, no success in
\* between, leaves the circuit open; the wrapped function is invoked only
\* while the circuit is closed, and a call begun with the circuit open ends
\* raised without one invocation; a successful invocation sets the failure
\* count to 0 and closes the circuit.
C37_Breaker ==
    [][ /\ (cbStreak' > cbStreak /\ cbStreak' >= CIRCUIT_BREAKER_THRESHOLD)
              => cbOpenUntil' > cbNow'
        /\ cbInvocations' > cbInvocations => cbOpenUntil <= cbNow
        /\ (cbPc = "attempt" /\ cbPc' = "idle" /\ cbBeganOpen)
              => (cbOutcome' = "raised" /\ cbInvocations' = 0)
        /\ cbOutcome' = "returned" => (cbFailures' = 0 /\ cbOpenUntil' = 0)
      ]_vars

\* Five failed invocations in a row have opened the circuit and the next
\* call, begun while it was open, has been rejected without an invocation.
C37_Witness ==
    /\ cbStreak >= CIRCUIT_BREAKER_THRESHOLD
    /\ cbPc = "idle"
    /\ cbOutcome = "raised"
    /\ cbBeganOpen
    /\ cbInvocations = 0
    /\ cbOpenUntil > cbNow

\* C38: an attempt rejected because the circuit is open leaves the failure
\* count and open_until as they were.
C38_RejectionKeepsState ==
    [][AttemptRejected => UNCHANGED <<cbFailures, cbOpenUntil>>]_vars

\* C39: an error of the wrapped function that is not transient is re-raised
\* after the first invocation, without a backoff sleep; no call invokes the
\* wrapped function more than max_retries times.
C39_PermanentNotRetried ==
    /\ cbLastErr = "permanent" => (cbPc # "sleep" /\ cbInvocations <= 1)
    /\ cbInvocations <= max_retries


-----------------------------------------------------------------------------
\* C40: every call of _check_rate_limit returns: a caller that entered it,
\* also one that found the window full and waits, is back outside later.
C40_AlwaysReturns ==
    \A c \in Callers : (rlPc[c] # "idle") ~> (rlPc[c] = "idle")

=============================================================================
